---- MODULE Spec2Model ----
(***************************************************************************)
(* Model of src/src/user-session.js: the Echo.UserSession singleton (the   *)
(* session state machine, its store and its attribute dispatcher) and the  *)
(* Echo.Canvas bootstrap that uses it.                                     *)
(*                                                                         *)
(* JavaScript values are tagged records: the tag t is the value's type and  *)
(* each type keeps its content in a field of its own name, so that the     *)
(* loose comparisons and the || defaults of the source can be computed as  *)
(* JavaScript computes them. An object is a finite map from                *)
(* property names to values; a property that is not in the map reads as    *)
(* undefined. An object that the source shares between two places (the     *)
(* active identity is one of the account records of the payload) is held   *)
(* once and named by a reference.                                          *)
(***************************************************************************)
EXTENDS Integers, Sequences, FiniteSets, TLC

-----------------------------------------------------------------------------
(* JavaScript values *)

Undef == [t |-> "undefined"]
Null == [t |-> "null"]
Str(s) == [t |-> "string", s |-> s]
Bool(b) == [t |-> "boolean", b |-> b]
Num(n) == [t |-> "number", n |-> n]
Arr(s) == [t |-> "array", v |-> s]
Obj(f) == [t |-> "object", f |-> f]
\* a reference to the i-th account record of user.data.poco.entry.accounts
Ref(i) == [t |-> "ref", i |-> i]
\* the outcome of a call that ends in a TypeError (a property of undefined)
Threw == [t |-> "throw"]

EmptyObj == Obj([k \in {} |-> Undef])

\* ToBoolean: undefined, null, false, 0 and "" are falsy, all else is truthy
Truthy(v) ==
    CASE v.t = "undefined" -> FALSE
      [] v.t = "null" -> FALSE
      [] v.t = "boolean" -> v.b
      [] v.t = "number" -> v.n # 0
      [] v.t = "string" -> v.s # ""
      [] OTHER -> TRUE

\* a || b
OrElse(a, b) == IF Truthy(a) THEN a ELSE b

\* o[k]: the property, undefined when the object has none
Prop(o, k) == IF o.t = "object" /\ k \in DOMAIN o.f THEN o.f[k] ELSE Undef

\* o[k] = v
SetProp(o, k, v) ==
    Obj([x \in (DOMAIN o.f) \cup {k} |-> IF x = k THEN v ELSE o.f[x]])

\* a === b on the values the session handles: primitives by value, account
\* records by reference; two arrays are never the same array
StrictEq(a, b) ==
    /\ a.t = b.t
    /\ a.t \in {"undefined", "null", "string", "boolean", "number", "ref"}
    /\ a = b

\* ToPrimitive of an array is its elements joined by ",": the element itself
\* for a one-element array of strings, "" for the empty array. Longer arrays
\* give a string holding a comma, which no string of the model is.
ArrToStr(a) ==
    IF Len(a.v) = 0 THEN Str("")
    ELSE IF Len(a.v) = 1 /\ a.v[1].t = "string" THEN a.v[1]
    ELSE Str("<joined>")

\* a == b (abstract equality) when one side is a string
LooseEqStr(a, s) ==
    CASE a.t = "string" -> a.s = s.s
      [] a.t = "array" -> ArrToStr(a).s = s.s
      [] a.t = "number" -> s.s = "" /\ a.n = 0
      [] a.t = "boolean" -> s.s = "" /\ a.b = FALSE
      [] OTHER -> FALSE

\* a == b
LooseEq(a, b) ==
    CASE a.t \in {"undefined", "null"} -> b.t \in {"undefined", "null"}
      [] b.t \in {"undefined", "null"} -> FALSE
      [] b.t = "string" -> LooseEqStr(a, b)
      [] a.t = "string" -> LooseEqStr(b, a)
      [] OTHER -> StrictEq(a, b)

\* $.inArray(value, array) >= 0
InArray(value, array) == \E i \in 1..Len(array.v) : StrictEq(array.v[i], value)

-----------------------------------------------------------------------------
(* The store: user.data and user.identity, held together as a record u.    *)
(* u.data is undefined before the first construction, {} from construction *)
(* to the first reset, and the normalized payload after. u.identity is     *)
(* undefined before the first reset, then either an object of its own or a *)
(* reference to one of the account records of u.data.                      *)

NewUser == [data |-> Undef, identity |-> Undef]

\* user.data.poco.entry.accounts
Accounts(d) == Prop(Prop(Prop(d, "poco"), "entry"), "accounts")

\* the array as references to its records (the array itself is never changed)
RefsOf(a) == Arr([i \in 1..Len(a.v) |-> Ref(i)])

\* the object user.identity names
IdentityObj(u) ==
    IF u.identity.t = "ref" THEN Accounts(u.data).v[u.identity.i] ELSE u.identity

\* user.identity[k] = v, written through to the account record when the
\* identity is one
SetIdentityProp(u, k, v) ==
    IF u.identity.t = "ref"
    THEN LET poco == Prop(u.data, "poco")
             entry == Prop(poco, "entry")
             accs == Prop(entry, "accounts")
             accs2 == Arr([accs.v EXCEPT ![u.identity.i] = SetProp(@, k, v)])
         IN [u EXCEPT !.data =
                SetProp(u.data, "poco",
                    SetProp(poco, "entry", SetProp(entry, "accounts", accs2)))]
    ELSE [u EXCEPT !.identity = SetProp(u.identity, k, v)]

\* a reserved namespace that is always the default one
NormalizeEchoOverwrites(echo) ==
    Obj([k \in {"state", "roles", "markers"} |->
            IF k = "state" THEN Str("Untouched") ELSE Arr(<<>>)])

\* the reserved namespace with its defaults filled in
NormalizeEcho(echo) ==
    LET e0 == OrElse(echo, EmptyObj)
        e1 == SetProp(e0, "state", OrElse(Prop(e0, "state"), Str("Untouched")))
        e2 == SetProp(e1, "roles", OrElse(Prop(e1, "roles"), Arr(<<>>)))
    IN SetProp(e2, "markers", OrElse(Prop(e2, "markers"), Arr(<<>>)))

_normalize(data) ==
    LET d0 == OrElse(data, EmptyObj)
        d1 == SetProp(d0, "echo", NormalizeEcho(Prop(d0, "echo")))
        poco == OrElse(Prop(d1, "poco"), Obj([k \in {"entry"} |-> EmptyObj]))
        d2 == SetProp(d1, "poco", poco)
        accs == Prop(Prop(poco, "entry"), "accounts")
    IN SetProp(d2, "identities",
               IF Truthy(accs) THEN RefsOf(accs) ELSE Arr(<<>>))

\* What _reset(data) leaves in the caller's object: $.extend({}, data) is a
\* shallow copy, so an echo object the payload has is the one _normalize fills
\* in, while echo, poco and identities added by _normalize go to the copy.
RawAfterReset(data) ==
    IF Truthy(Prop(data, "echo"))
    THEN SetProp(data, "echo", NormalizeEcho(Prop(data, "echo")))
    ELSE data

_attrLocation(u, key) ==
    IF key \in {"roles", "state", "markers"} THEN Prop(u.data, "echo") ELSE IdentityObj(u)

\* Each reader returns [ret |-> the value returned, u |-> the store after].

\* a reader that takes every account whose loggedIn is truthy for a logged-in one
_getActiveIdentitiesTruthyFlag(u) ==
    IF u.data.t = "undefined" THEN [ret |-> Threw, u |-> u]
    ELSE IF ~Truthy(Prop(u.data, "poco")) \/ ~Truthy(Prop(Prop(u.data, "poco"), "entry"))
    THEN [ret |-> Undef, u |-> u]
    ELSE IF Truthy(u.identity) /\ Truthy(Prop(IdentityObj(u), "activeIdentities"))
    THEN [ret |-> Prop(IdentityObj(u), "activeIdentities"), u |-> u]
    ELSE LET accs == OrElse(Accounts(u.data), Arr(<<>>))
             logged(r) == Truthy(Prop(accs.v[r.i], "loggedIn"))
             identities == Arr(SelectSeq(RefsOf(accs).v, logged))
         IN [ret |-> identities,
             u |-> IF Truthy(u.identity)
                   THEN SetIdentityProp(u, "activeIdentities", identities)
                   ELSE u]

_getActiveIdentities(u) ==
    IF u.data.t = "undefined" THEN [ret |-> Threw, u |-> u]
    ELSE IF ~Truthy(Prop(u.data, "poco")) \/ ~Truthy(Prop(Prop(u.data, "poco"), "entry"))
    THEN [ret |-> Undef, u |-> u]
    ELSE IF Truthy(u.identity) /\ Truthy(Prop(IdentityObj(u), "activeIdentities"))
    THEN [ret |-> Prop(IdentityObj(u), "activeIdentities"), u |-> u]
    ELSE LET accs == OrElse(Accounts(u.data), Arr(<<>>))
             logged(r) == LooseEq(Prop(accs.v[r.i], "loggedIn"), Str("true"))
             identities == Arr(SelectSeq(RefsOf(accs).v, logged))
         IN [ret |-> identities,
             u |-> IF Truthy(u.identity)
                   THEN SetIdentityProp(u, "activeIdentities", identities)
                   ELSE u]

_reset(data) ==
    LET u1 == [data |-> _normalize(data), identity |-> EmptyObj]
        identities == _getActiveIdentities(u1).ret
    IN [data |-> u1.data,
        identity |-> IF Truthy(identities) /\ Len(identities.v) > 0
                     THEN identities.v[1] ELSE EmptyObj]

_isLogged(u) ==
    LET r == _getActiveIdentities(u)
    IN IF r.ret = Threw THEN r
       ELSE [ret |-> Bool(Truthy(r.ret) /\ Len(r.ret.v) > 0), u |-> r.u]

-----------------------------------------------------------------------------
(* The attribute dispatcher and the readers and writers behind it *)

\* Backplane.getChannelID(): the page's channel id
ChannelID == "channel-1"

\* the attribute keys the model's callers use
Keys ==
    {"roles", "state", "markers", "role", "marker", "identity", "logged",
     "name", "avatar", "sessionID", "activeIdentities", "username",
     "displayName", "identityUrl", "custom"}

\* key.charAt(0).toUpperCase() + key.slice(1)
Capitalize(key) ==
    CASE key = "roles" -> "Roles" [] key = "state" -> "State"
      [] key = "markers" -> "Markers" [] key = "role" -> "Role"
      [] key = "marker" -> "Marker" [] key = "identity" -> "Identity"
      [] key = "logged" -> "Logged" [] key = "name" -> "Name"
      [] key = "avatar" -> "Avatar" [] key = "sessionID" -> "SessionID"
      [] key = "activeIdentities" -> "ActiveIdentities"
      [] key = "username" -> "Username" [] key = "displayName" -> "DisplayName"
      [] key = "identityUrl" -> "IdentityUrl" [] key = "custom" -> "Custom"

\* the methods of Echo.UserSession named "_" + action + Name
Handlers ==
    {<<"is", "Logged">>, <<"set", "Name">>, <<"get", "ActiveIdentities">>,
     <<"get", "Avatar">>, <<"get", "Name">>, <<"get", "SessionID">>,
     <<"has", "Identity">>, <<"any", "Marker">>, <<"any", "Role">>}

\* whether _maybeDelegate finds a handler for the action and the key
Delegated(action, key) == <<action, Capitalize(key)>> \in Handlers

\* Echo.Utils.foldl over the photos with the callback of _getAvatar: the
\* value of the first photo whose type is "avatar"
FirstAvatar(photos) ==
    LET hits == SelectSeq(photos.v, LAMBDA img : LooseEq(Prop(img, "type"), Str("avatar")))
    IN IF Len(hits) = 0 THEN Undef ELSE Prop(hits[1], "value")

_getAvatar(u) ==
    IF ~Truthy(u.identity) THEN [ret |-> Threw, u |-> u]
    ELSE LET id == IdentityObj(u)
             avatar == OrElse(Prop(id, "avatar"),
                              FirstAvatar(OrElse(Prop(id, "photos"), Arr(<<>>))))
         IN [ret |-> avatar, u |-> SetIdentityProp(u, "avatar", avatar)]

_getName(u) ==
    [ret |-> IF Truthy(u.identity)
             THEN OrElse(Prop(IdentityObj(u), "displayName"),
                         Prop(IdentityObj(u), "username"))
             ELSE Undef,
     u |-> u]

_getSessionID(u) == [ret |-> Str(ChannelID), u |-> u]

\* the fallback of get: only a location that is undefined throws
getFallback(u, key, defaults) ==
    LET loc == _attrLocation(u, key)
        value == Prop(loc, key)
    IN IF u.data.t = "undefined" \/ loc.t = "undefined" THEN [ret |-> Threw, u |-> u]
       ELSE [ret |-> IF LooseEq(value, Undef) THEN defaults ELSE value, u |-> u]

get(u, key, defaults) ==
    IF Delegated("get", key)
    THEN CASE key = "activeIdentities" -> _getActiveIdentities(u)
           [] key = "avatar" -> _getAvatar(u)
           [] key = "name" -> _getName(u)
           [] key = "sessionID" -> _getSessionID(u)
    ELSE getFallback(u, key, defaults)

is(u, key) ==
    IF Delegated("is", key) THEN _isLogged(u) ELSE [ret |-> Undef, u |-> u]

\* a fallback of any that looks at the first of the values only
anyFallbackFirstOnly(u, key, values) ==
    IF ~Truthy(u.identity) \/ Len(values.v) = 0 THEN [ret |-> Bool(FALSE), u |-> u]
    ELSE LET g == get(u, key, EmptyObj)
             data == g.ret
             hit(value) ==
                 \/ data.t = "string" /\ LooseEq(data, value)
                 \/ data.t = "array" /\ InArray(value, data)
         IN IF data = Threw THEN g
            ELSE [ret |-> Bool(hit(values.v[1])), u |-> g.u]

\* the fallback of any; values is an array
anyFallback(u, key, values) ==
    IF ~Truthy(u.identity) \/ Len(values.v) = 0 THEN [ret |-> Bool(FALSE), u |-> u]
    ELSE LET g == get(u, key, EmptyObj)
             data == g.ret
             hit(value) ==
                 \/ data.t = "string" /\ LooseEq(data, value)
                 \/ data.t = "array" /\ InArray(value, data)
         IN IF data = Threw THEN g
            ELSE [ret |-> Bool(\E i \in 1..Len(values.v) : hit(values.v[i])), u |-> g.u]

_anyMarker(u, value) == anyFallback(u, "markers", value)

_anyRole(u, value) == anyFallback(u, "roles", value)

any(u, key, values) ==
    IF Delegated("any", key)
    THEN CASE key = "marker" -> _anyMarker(u, values)
           [] key = "role" -> _anyRole(u, values)
    ELSE anyFallback(u, key, values)

\* called by the dispatcher with config.arg, the array [value], as its argument
_hasIdentity(u, identityUrl) ==
    LET ids == Prop(u.data, "identities")
        accs == Accounts(u.data)
        same(r) ==
            /\ Truthy(Prop(accs.v[r.i], "identityUrl"))
            /\ LooseEq(Prop(accs.v[r.i], "identityUrl"), identityUrl)
    IN IF u.data.t = "undefined" \/ ids.t = "undefined" THEN [ret |-> Threw, u |-> u]
       ELSE [ret |-> Bool(\E i \in 1..Len(ids.v) : same(ids.v[i])), u |-> u]

has(u, key, value) ==
    IF Delegated("has", key)
    THEN _hasIdentity(u, Arr(<<value>>))
    ELSE any(u, key, Arr(<<value>>))

\* called by the dispatcher with config.arg, the array [value], as its argument
_setName(u, value) == SetIdentityProp(u, "displayName", value)

\* the store after set(key, value); Threw when the location is undefined
set(u, key, value) ==
    IF Delegated("set", key)
    THEN IF ~Truthy(u.identity) THEN Threw ELSE _setName(u, Arr(<<value>>))
    ELSE LET loc == _attrLocation(u, key)
         IN IF u.data.t = "undefined" \/ loc.t = "undefined" THEN Threw
            ELSE IF key \in {"roles", "state", "markers"}
            THEN [u EXCEPT !.data = SetProp(u.data, "echo", SetProp(loc, key, value))]
            ELSE SetIdentityProp(u, key, value)

-----------------------------------------------------------------------------
(* The session singleton *)

VARIABLES
    state,      \* user.state: "none" while undefined, "waiting", "ready"
    user,       \* the store: [data, identity]
    config,     \* user.config: undefined, or the configuration object
    backplaneSubscriptionID,    \* user.backplaneSubscriptionID
    subscribers,    \* the callbacks subscribed to Backplane, by subscription id
    whoami,     \* the identity-fetch requests in flight, in the order issued
    logouts,    \* the logout requests in flight
    onInitSubs, \* the Echo.Events handlers of the onInit topic, in the order subscribed
    calls,      \* how many caller callbacks (ready, logout) have been handed in
    fired,      \* how many times each caller callback has run
    out,        \* what the last handler did, in order: requests, events, callbacks
    lastOp,     \* the last handler that ran, with the state it started from
    fnArg,      \* the argument of the pure function a function check applies
    fnRet,      \* what that function returned, Pending before the call
    canvases,   \* the Echo.Canvas instances of the page, in the order created
    initialized,    \* target.data("echo-canvas-initialized") of every container
    defined,    \* the components whose class is defined (Echo.Control.isDefined)
    debug,      \* Echo.Loader.isDebug()
    acked,      \* whether Backplane has delivered an identity/ack to the page of canvases
    fetches     \* how many identity-fetch requests the page of canvases has sent

\* the page the canvases live on, and its history
canvasVars == <<canvases, initialized, defined, debug, acked, fetches>>

vars ==
    <<state, user, config, backplaneSubscriptionID, subscribers, whoami, logouts,
      onInitSubs, calls, fired, out, lastOp, fnArg, fnRet,
      canvases, initialized, defined, debug, acked, fetches>>

\* how many caller callbacks a run hands in
MaxCalls == 3
\* how many requests (identity-fetch and logout) may be in flight at once
MaxInFlight == 2

OnInitTopic == "Echo.UserSession.onInit"
OnInvalidateTopic == "Echo.UserSession.onInvalidate"

\* the session as one record, so that a handler is a function from the
\* session before to the session after
Cur ==
    [state |-> state, u |-> user, config |-> config,
     backplaneSubscriptionID |-> backplaneSubscriptionID,
     subscribers |-> subscribers, whoami |-> whoami, logouts |-> logouts,
     onInitSubs |-> onInitSubs, fired |-> fired, out |-> <<>>]

\* the continuations the session is handed
ReadyCb(id) == [kind |-> "ready", id |-> id]
LogoutCb(id) == [kind |-> "logout", id |-> id]
InvalidateCb == [kind |-> "invalidate", id |-> 0]
NoCb == [kind |-> "none", id |-> 0]

Emit(s, e) == [s EXCEPT !.out = Append(@, e)]

\* Echo.Events.publish of a session event: the event is recorded with the
\* lifecycle state and the store as they are when it is published
PublishEvent(s, topic, data) ==
    Emit(s, [ev |-> "publish", topic |-> topic, data |-> data,
             state |-> s.state, store |-> s.u.data, cb |-> NoCb])

\* a continuation runs: a caller's callback, or the onInvalidate publisher of
\* _listenEvents
Invoke(s, cb) ==
    CASE cb.kind = "none" -> s
      [] cb.kind = "invalidate" -> PublishEvent(s, OnInvalidateTopic, s.u.data)
      [] OTHER ->
            [Emit(s, [ev |-> "callback", topic |-> "", data |-> Undef,
                      state |-> s.state, store |-> s.u.data, cb |-> cb])
                EXCEPT !.fired[cb.id] = @ + 1]

\* _apiRequest to the whoami endpoint
RequestWhoami(s, params, cb) ==
    [Emit(s, [ev |-> "request", topic |-> "whoami", data |-> params,
              state |-> s.state, store |-> s.u.data, cb |-> cb])
        EXCEPT !.whoami = Append(@, [params |-> params, cb |-> cb])]

\* _apiRequest to the logout endpoint
RequestLogout(s, params, cb) ==
    [Emit(s, [ev |-> "request", topic |-> "logout", data |-> params,
              state |-> s.state, store |-> s.u.data, cb |-> cb])
        EXCEPT !.logouts = Append(@, [params |-> params, cb |-> cb])]

\* the part of _init that runs at once: the state is set and the request sent
_init(s, callback) ==
    LET s1 == [s EXCEPT !.state = "waiting"]
        params == Obj([k \in {"appkey", "sessionID"} |->
                        IF k = "appkey" THEN Prop(s1.config, "appkey")
                        ELSE get(s1.u, "sessionID", Undef).ret])
    IN RequestWhoami(s1, params, callback)

\* one-shot subscription of callback to the onInit topic
_onInit(s, callback) ==
    IF callback.kind = "none" THEN s
    ELSE [s EXCEPT !.onInitSubs = Append(@, callback)]

\* a handler that calls back and stays subscribed
OnInitHandlerKeepsSubscription(s, cb) == Invoke(s, cb)

\* the handler _onInit subscribes: it unsubscribes itself, then calls back
OnInitHandler(s, cb) ==
    Invoke([s EXCEPT !.onInitSubs = SelectSeq(@, LAMBDA h : h # cb)], cb)

\* Echo.Events.publish to the handlers subscribed when it is called, in the
\* order they subscribed
RECURSIVE RunHandlers(_, _)
RunHandlers(s, handlers) ==
    IF handlers = <<>> THEN s
    ELSE RunHandlers(OnInitHandler(s, Head(handlers)), Tail(handlers))

PublishOnInit(s, data) ==
    RunHandlers(PublishEvent(s, OnInitTopic, data), s.onInitSubs)

_listenEvents(s) ==
    IF Truthy(s.backplaneSubscriptionID) THEN s
    ELSE LET id == Num(Len(s.subscribers) + 1)
         IN [s EXCEPT !.backplaneSubscriptionID = id,
                      !.subscribers = Append(@, id)]

\* a listener that resolves the session again on a message of any type
OnBackplaneMessageAnyType(s, type) == _init(s, InvalidateCb)

\* the callback _listenEvents subscribes to Backplane
OnBackplaneMessage(s, type) ==
    IF type # "identity/ack" THEN s ELSE _init(s, InvalidateCb)

\* a success callback that publishes onInit before it touches state and store
OnWhoamiPublishesFirst(s, callback, response) ==
    LET result == Prop(response, "result")
        data == IF Truthy(result) /\ LooseEq(result, Str("session_not_found"))
                THEN EmptyObj ELSE response
        s1 == PublishOnInit(s, data)
        s2 == [s1 EXCEPT !.state = "ready"]
        s3 == [s2 EXCEPT !.u = _reset(data)]
    IN Invoke(s3, callback)

\* the success callback of the whoami request of _init
OnWhoami(s, callback, response) ==
    LET result == Prop(response, "result")
        data == IF Truthy(result) /\ LooseEq(result, Str("session_not_found"))
                THEN EmptyObj ELSE response
        s1 == [s EXCEPT !.state = "ready"]
        s2 == [s1 EXCEPT !.u = _reset(data)]
        s3 == PublishOnInit(s2, RawAfterReset(data))
    IN Invoke(s3, callback)

\* a switch with no case for "ready": a ready session is initialized again
ConstructCaseNoReady(st) == IF st = "waiting" THEN "waiting" ELSE "default"

\* a switch with no case for "waiting": a waiting session is initialized again
ConstructCaseNoWaiting(st) == IF st = "ready" THEN "ready" ELSE "default"

\* which branch of the switch of _construct a lifecycle state takes
ConstructCase(st) ==
    CASE st = "waiting" -> "waiting"
      [] st = "ready" -> "ready"
      [] OTHER -> "default"

\* a constructor that subscribes to Backplane on every accepted call
_constructListensAlways(s, cfg, callback) ==
    IF ~Truthy(cfg) \/ ~Truthy(Prop(cfg, "appkey")) THEN s
    ELSE LET id == Num(Len(s.subscribers) + 1)
             l == [s EXCEPT !.backplaneSubscriptionID = id,
                            !.subscribers = Append(@, id)]
         IN CASE ConstructCase(s.state) = "waiting" -> _onInit(l, callback)
              [] ConstructCase(s.state) = "ready" -> Invoke(l, callback)
              [] OTHER ->
                    _init([l EXCEPT !.u.data = EmptyObj,
                                    !.config = Obj([k \in {"appkey"} |-> Prop(cfg, "appkey")])],
                          callback)

\* a constructor that takes the config of every accepted call for its own
_constructReconfigures(s, cfg, callback) ==
    IF ~Truthy(cfg) \/ ~Truthy(Prop(cfg, "appkey")) THEN s
    ELSE LET s1 == [s EXCEPT !.config = Obj([k \in {"appkey"} |-> Prop(cfg, "appkey")])]
         IN CASE ConstructCase(s.state) = "waiting" -> _onInit(s1, callback)
              [] ConstructCase(s.state) = "ready" -> Invoke(s1, callback)
              [] OTHER -> _init(_listenEvents([s1 EXCEPT !.u.data = EmptyObj]), callback)

\* a constructor that returns early only when it is given no config at all
_constructAcceptsEmptyKey(s, cfg, callback) ==
    IF ~Truthy(cfg) THEN s
    ELSE CASE ConstructCase(s.state) = "waiting" -> _onInit(s, callback)
           [] ConstructCase(s.state) = "ready" -> Invoke(s, callback)
           [] OTHER ->
                LET s1 == [s EXCEPT !.u.data = EmptyObj,
                                    !.config = Obj([k \in {"appkey"} |-> Prop(cfg, "appkey")])]
                IN _init(_listenEvents(s1), callback)

\* cfg is the caller's config: undefined or an object; callback stands for the
\* wrapper around config.ready
_construct(s, cfg, callback) ==
    IF ~Truthy(cfg) \/ ~Truthy(Prop(cfg, "appkey")) THEN s
    ELSE CASE ConstructCase(s.state) = "waiting" -> _onInit(s, callback)
           [] ConstructCase(s.state) = "ready" -> Invoke(s, callback)
           [] OTHER ->
                LET s1 == [s EXCEPT !.u.data = EmptyObj,
                                    !.config = Obj([k \in {"appkey"} |-> Prop(cfg, "appkey")])]
                IN _init(_listenEvents(s1), callback)

\* a success callback that resolves the session again by itself
OnLogoutInits(s, callback) ==
    Emit(_init(s, callback),
         [ev |-> "expectMessages", topic |-> "identity/ack", data |-> Undef,
          state |-> s.state, store |-> s.u.data, cb |-> NoCb])

\* the success callback of the logout request
OnLogout(s, callback) ==
    Emit(_onInit(s, callback),
         [ev |-> "expectMessages", topic |-> "identity/ack", data |-> Undef,
          state |-> s.state, store |-> s.u.data, cb |-> NoCb])

\* a logout that calls back without resetting the store of an anonymous user
logoutKeepsStore(s, callback) ==
    LET logged == is(s.u, "logged")
    IN IF logged.ret = Threw THEN Threw
       ELSE IF ~Truthy(logged.ret)
       THEN Invoke(s, callback)
       ELSE RequestLogout([s EXCEPT !.u = logged.u],
                Obj([k \in {"sessionID"} |-> get(logged.u, "sessionID", Undef).ret]),
                callback)

\* logout(callback); Threw when is("logged") throws
logout(s, callback) ==
    LET logged == is(s.u, "logged")
    IN IF logged.ret = Threw THEN Threw
       ELSE IF ~Truthy(logged.ret)
       THEN Invoke([s EXCEPT !.u = _reset(EmptyObj)], callback)
       ELSE RequestLogout([s EXCEPT !.u = logged.u],
                Obj([k \in {"sessionID"} |-> get(logged.u, "sessionID", Undef).ret]),
                callback)

-----------------------------------------------------------------------------
(* The inputs: what callers pass and what the server answers *)

\* a record of name/value pairs as an object
Account(url, name, loggedIn) ==
    Obj([k \in {"identityUrl", "username", "loggedIn"} |->
            CASE k = "identityUrl" -> Str(url)
              [] k = "username" -> Str(name)
              [] k = "loggedIn" -> Str(loggedIn)])

EchoOf(st, roles, markers) ==
    Obj([k \in {"state", "roles", "markers"} |->
            CASE k = "state" -> st [] k = "roles" -> roles [] k = "markers" -> markers])

PocoOf(accounts) ==
    Obj([k \in {"entry"} |-> Obj([j \in {"accounts"} |-> accounts])])

Payload(echo, poco) ==
    Obj([k \in {"echo", "poco"} |-> IF k = "echo" THEN echo ELSE poco])

\* the answer of the server that knows no session for the channel
SessionNotFound == Obj([k \in {"result"} |-> Str("session_not_found")])

\* a user logged in with the second of two accounts
LoggedIn ==
    Payload(EchoOf(Str("ModeratorApproved"), Arr(<<Str("moderator")>>), Arr(<<Str("vip")>>)),
            PocoOf(Arr(<<Account("http://a.example/", "alice", "false"),
                         Account("http://b.example/", "bob", "true")>>)))

\* a session with no account logged in and a reserved namespace with only a state
Anonymous ==
    Obj([k \in {"echo", "poco"} |->
            IF k = "echo" THEN Obj([j \in {"state"} |-> Str("Untouched")])
            ELSE PocoOf(Arr(<<Account("http://a.example/", "alice", "false")>>))])

\* what the server answers to an identity-fetch
Responses == {SessionNotFound, LoggedIn, Anonymous}

AppKeys == {"key-1", "key-2"}

\* what a caller passes to Echo.UserSession(config)
Configs ==
    {Undef, Obj([k \in {"appkey"} |-> Str("")])}
        \cup {Obj([k \in {"appkey"} |-> Str(a)]) : a \in AppKeys}

MessageTypes == {"identity/ack", "identity/login"}

\* the containers of the page: one whose markup names a canvas id and an app
\* key, one with no attribute
Containers == {"marked-up", "bare"}

\* the keys whose get may fill a cache
ReadKeys == {"activeIdentities", "avatar"}

-----------------------------------------------------------------------------
(* The operations *)

AssignSession(s) ==
    /\ state' = s.state
    /\ user' = s.u
    /\ config' = s.config
    /\ backplaneSubscriptionID' = s.backplaneSubscriptionID
    /\ subscribers' = s.subscribers
    /\ whoami' = s.whoami
    /\ logouts' = s.logouts
    /\ onInitSubs' = s.onInitSubs
    /\ fired' = s.fired
    /\ out' = s.out

Assign(s) ==
    /\ AssignSession(s)
    /\ UNCHANGED <<fnArg, fnRet>>
    /\ UNCHANGED canvasVars

Op(name, arg, cb) == [op |-> name, arg |-> arg, cb |-> cb, pre |-> state]

RemoveAt(seq, i) == SubSeq(seq, 1, i - 1) \o SubSeq(seq, i + 1, Len(seq))

\* Echo.UserSession(cfg) with a ready callback of the caller's
Construct(cfg) ==
    /\ calls < MaxCalls
    /\ calls' = calls + 1
    /\ Assign(_construct(Cur, cfg, ReadyCb(calls + 1)))
    /\ lastOp' = Op("construct", cfg, ReadyCb(calls + 1))

\* Backplane delivers a message to every callback subscribed to it
RECURSIVE Deliver(_, _, _)
Deliver(s, n, type) ==
    IF n = 0 THEN s ELSE OnBackplaneMessage(Deliver(s, n - 1, type), type)

BackplaneMessage(type) ==
    /\ subscribers # <<>>
    /\ type = "identity/ack" =>
            Len(whoami) + Len(logouts) + Len(subscribers) <= MaxInFlight
    /\ Assign(Deliver(Cur, Len(subscribers), type))
    /\ lastOp' = Op("message", Str(type), NoCb)
    /\ UNCHANGED calls

\* the answer to one of the identity-fetch requests in flight arrives
WhoamiResponse(i, response) ==
    /\ i \in 1..Len(whoami)
    /\ Assign(OnWhoami([Cur EXCEPT !.whoami = RemoveAt(@, i)], whoami[i].cb, response))
    /\ lastOp' = Op("whoami", Undef, whoami[i].cb)
    /\ UNCHANGED calls

\* logout(callback), with a callback of the caller's or with none; lastOp
\* keeps what is("logged") answered, Threw when the call ended in a TypeError
Logout(withCallback) ==
    /\ withCallback => calls < MaxCalls
    /\ Len(whoami) + Len(logouts) < MaxInFlight
    /\ LET cb == IF withCallback THEN LogoutCb(calls + 1) ELSE NoCb
           s == logout(Cur, cb)
       IN /\ IF s = Threw
             THEN /\ UNCHANGED <<state, user, config, backplaneSubscriptionID, subscribers,
                                 whoami, logouts, onInitSubs, fired, fnArg, fnRet>>
                  /\ UNCHANGED canvasVars
                  /\ out' = <<>>
             ELSE Assign(s)
          /\ lastOp' = Op("logout", is(user, "logged").ret, cb)
    /\ calls' = IF withCallback THEN calls + 1 ELSE calls

\* the answer to one of the logout requests in flight arrives
LogoutResponse(i) ==
    /\ i \in 1..Len(logouts)
    /\ Assign(OnLogout([Cur EXCEPT !.logouts = RemoveAt(@, i)], logouts[i].cb))
    /\ lastOp' = Op("logoutResponse", Undef, logouts[i].cb)
    /\ UNCHANGED calls

\* a read through get(key) that changes the store: the value goes to the
\* caller, the store keeps what the reader cached
Get(key) ==
    /\ get(user, key, Undef).ret # Threw
    /\ get(user, key, Undef).u # user
    /\ Assign([Cur EXCEPT !.u = get(user, key, Undef).u])
    /\ lastOp' = Op("get", Str(key), NoCb)
    /\ UNCHANGED calls

Pending == [t |-> "pending"]

InitSession ==
    /\ state = "none"
    /\ user = NewUser
    /\ config = Undef
    /\ backplaneSubscriptionID = Undef
    /\ subscribers = <<>>
    /\ whoami = <<>>
    /\ logouts = <<>>
    /\ onInitSubs = <<>>
    /\ calls = 0
    /\ fired = [i \in 1..MaxCalls |-> 0]
    /\ out = <<>>
    /\ lastOp = [op |-> "none", arg |-> Undef, cb |-> NoCb, pre |-> "none"]

\* a page with no canvas yet
InitPage ==
    /\ canvases = <<>>
    /\ initialized = [target \in Containers |-> Undef]
    /\ defined = {}
    /\ acked = FALSE
    /\ fetches = 0

Init == InitSession /\ fnArg = Undef /\ fnRet = Pending /\ InitPage /\ debug = FALSE

Next ==
    \/ \E cfg \in Configs : Construct(cfg)
    \/ \E type \in MessageTypes : BackplaneMessage(type)
    \/ \E i \in 1..MaxInFlight, r \in Responses : WhoamiResponse(i, r)
    \/ \E b \in BOOLEAN : Logout(b)
    \/ \E i \in 1..MaxInFlight : LogoutResponse(i)
    \/ \E key \in ReadKeys : Get(key)

Spec == Init /\ [][Next]_vars

-----------------------------------------------------------------------------
(* The store under writes: one construction, then responses, invalidations, *)
(* anonymous and real logouts, and set(key, value) on the resolved store.   *)

SetKeys == {"custom", "name"}

SetValues == {Null, Bool(FALSE), Num(0), Str(""), Arr(<<>>), Str("carol")}

\* set(key, value); a call that throws changes nothing
Set(key, value) ==
    /\ set(user, key, value) # Threw
    /\ Assign([Cur EXCEPT !.u = set(user, key, value)])
    /\ lastOp' = Op("set", Str(key), NoCb)
    /\ UNCHANGED calls

StoreNext ==
    \/ state = "none" /\ \E a \in AppKeys : Construct(Obj([k \in {"appkey"} |-> Str(a)]))
    \/ BackplaneMessage("identity/ack")
    \/ \E i \in 1..MaxInFlight, r \in Responses : WhoamiResponse(i, r)
    \/ Logout(FALSE)
    \/ \E i \in 1..MaxInFlight : LogoutResponse(i)
    \/ \E key \in ReadKeys : Get(key)
    \/ \E key \in SetKeys, value \in SetValues : Set(key, value)

SpecStore == Init /\ [][StoreNext]_vars

-----------------------------------------------------------------------------
(* _normalize as a function: every input of NormalizeInputs, normalized *)

EchoStates == {Undef, Str(""), Str("Untouched"), Str("ModeratorApproved")}
EchoRoles == {Undef, Null, Arr(<<>>), Arr(<<Str("moderator")>>)}
EchoMarkers == {Undef, Arr(<<>>), Arr(<<Str("vip")>>)}

NormalizeInputs ==
    {Undef, EmptyObj}
        \cup {Payload(echo, poco) :
                echo \in {Undef} \cup {EchoOf(st, r, m) :
                            st \in EchoStates, r \in EchoRoles, m \in EchoMarkers},
                poco \in {Undef, PocoOf(Undef),
                          PocoOf(Arr(<<Account("http://a.example/", "alice", "true")>>))}}

InitNormalize ==
    InitSession /\ fnArg \in NormalizeInputs /\ fnRet = Pending /\ InitPage /\ debug = FALSE

ApplyNormalize ==
    /\ fnRet = Pending
    /\ fnRet' = _normalize(fnArg)
    /\ UNCHANGED <<state, user, config, backplaneSubscriptionID, subscribers, whoami,
                   logouts, onInitSubs, calls, fired, out, lastOp, fnArg>>
    /\ UNCHANGED canvasVars

SpecNormalize == InitNormalize /\ [][ApplyNormalize]_vars

-----------------------------------------------------------------------------
(* Properties of the session state machine *)

\* the continuations a trace of effects ran, in order
CallbacksOf(o) ==
    LET calledBack == SelectSeq(o, LAMBDA e : e.ev = "callback")
    IN [i \in 1..Len(calledBack) |-> calledBack[i].cb]

\* the requests a trace of effects sent
RequestsOf(o) == SelectSeq(o, LAMBDA e : e.ev = "request")

\* a config _construct accepts
ValidConfig(cfg) == Truthy(cfg) /\ Truthy(Prop(cfg, "appkey"))

\* the continuation of a request, when it is a caller's callback
DirectCallback(cb) == IF cb.kind \in {"ready", "logout"} THEN <<cb>> ELSE <<>>

\* C1: a construction with a valid app key made while the state is waiting
\* sends no request and queues its callback behind those already queued; when
\* an identity-fetch response is processed, every queued callback runs, in
\* the order queued, and the queue is left empty; no callback ever runs twice.
C1_WaitingCallbacksFireOnceInOrder ==
    [][/\ (lastOp'.op = "construct" /\ ValidConfig(lastOp'.arg) /\ state = "waiting") =>
            /\ whoami' = whoami /\ logouts' = logouts
            /\ out' = <<>>
            /\ state' = "waiting"
            /\ onInitSubs' = Append(onInitSubs, lastOp'.cb)
       /\ lastOp'.op = "whoami" =>
            /\ CallbacksOf(out') = onInitSubs \o DirectCallback(lastOp'.cb)
            /\ onInitSubs' = <<>>
            /\ RequestsOf(out') = <<>>
       /\ \A id \in 1..MaxCalls : fired'[id] <= 1]_vars

\* two callbacks queued during waiting have run, in the order queued, before
\* the callback of the construction that started the resolution
C1_Witness ==
    /\ lastOp.op = "whoami"
    /\ CallbacksOf(out) = <<ReadyCb(2), ReadyCb(3), ReadyCb(1)>>
    /\ \A id \in 1..3 : fired[id] = 1

\* C2: at most one identity-fetch request is in flight in every reachable state.
C2_AtMostOneFetchInFlight == Len(whoami) <= 1

\* C3: the lifecycle state only moves none -> waiting, waiting -> ready and
\* ready -> waiting, and a fetch response is only ever applied in state waiting.
C3_LifecycleTransitions ==
    [][/\ state' # state =>
            <<state, state'>> \in
                {<<"none", "waiting">>, <<"waiting", "ready">>, <<"ready", "waiting">>}
       /\ lastOp'.op = "whoami" => state = "waiting" /\ state' = "ready"]_vars

\* C4: a construction with a valid app key made while the state is ready runs
\* its callback within the call, once, sends no request, and leaves the
\* lifecycle state, the store and the subscriptions as they were.
C4_ConstructWhenReady ==
    [][(lastOp'.op = "construct" /\ ValidConfig(lastOp'.arg) /\ state = "ready") =>
            /\ CallbacksOf(out') = <<lastOp'.cb>>
            /\ RequestsOf(out') = <<>>
            /\ fired'[lastOp'.cb.id] = 1
            /\ state' = "ready" /\ user' = user /\ config' = config
            /\ whoami' = whoami /\ logouts' = logouts
            /\ onInitSubs' = onInitSubs /\ subscribers' = subscribers]_vars

C4_Witness ==
    /\ lastOp.op = "construct" /\ ValidConfig(lastOp.arg) /\ lastOp.pre = "ready"
    /\ CallbacksOf(out) = <<lastOp.cb>>
    /\ state = "ready" /\ Len(Prop(user.data, "identities").v) = 2

\* C5: when an identity-fetch response is processed, the first effect is the
\* onInit event, published with the state already ready and the store already
\* holding the normalized data the handler leaves; then the callbacks queued
\* during waiting run in subscription order; the continuation of the request
\* (the caller's callback, or the onInvalidate publisher) runs last.
C5_ResponseOrder ==
    [][lastOp'.op = "whoami" =>
        LET n == Len(onInitSubs)
        IN /\ Len(out') = n + 2
           /\ out'[1].ev = "publish" /\ out'[1].topic = OnInitTopic
           /\ out'[1].state = "ready" /\ state' = "ready"
           /\ out'[1].store = user'.data
           /\ Prop(out'[1].store, "identities").t = "array"
           /\ \A j \in 1..n : out'[j + 1].ev = "callback" /\ out'[j + 1].cb = onInitSubs[j]
           /\ IF lastOp'.cb.kind = "invalidate"
              THEN out'[n + 2].ev = "publish" /\ out'[n + 2].topic = OnInvalidateTopic
              ELSE out'[n + 2].ev = "callback" /\ out'[n + 2].cb = lastOp'.cb]_vars

\* a response processed with two callbacks queued and a caller's callback last
C5_Witness ==
    /\ lastOp.op = "whoami" /\ lastOp.cb.kind = "ready"
    /\ Len(out) = 4 /\ out[1].ev = "publish" /\ out[4].cb = lastOp.cb
    /\ lastOp.pre = "waiting"

-----------------------------------------------------------------------------
(* Properties of the store and of the dispatcher *)

\* the shape _normalize gives: the reserved namespace with its three fields
\* and the identities list
IsNormalized(d) ==
    /\ Prop(d, "echo").t = "object"
    /\ Prop(Prop(d, "echo"), "state").t = "string"
    /\ Prop(Prop(d, "echo"), "roles").t = "array"
    /\ Prop(Prop(d, "echo"), "markers").t = "array"
    /\ Prop(d, "identities").t = "array"

\* C6: the data of every published onInit event is the normalized payload: it
\* holds the reserved namespace with state, roles and markers, and the
\* identities list.
C6_OnInitCarriesNormalizedData ==
    \A i \in 1..Len(out) :
        (out[i].ev = "publish" /\ out[i].topic = OnInitTopic) => IsNormalized(out[i].data)

DefaultOf(field) == IF field = "state" THEN Str("Untouched") ELSE Arr(<<>>)

\* the reserved-namespace field of a payload and of its normalization
GivenField(field) == Prop(Prop(fnArg, "echo"), field)
NormalizedField(field) == Prop(Prop(fnRet, "echo"), field)

\* an absent or empty payload normalizes to the default reserved namespace
\* and an empty identities list
NormalizedEmpty ==
    fnArg \in {Undef, EmptyObj} =>
        /\ Prop(fnRet, "echo") = EchoOf(Str("Untouched"), Arr(<<>>), Arr(<<>>))
        /\ Prop(fnRet, "identities") = Arr(<<>>)

\* C7 as stated: an absent or empty payload normalizes to the defaults, and
\* every reserved-namespace field present in a payload is kept, only the
\* missing ones getting the default.
C7_NormalizeKeepsPresentFields ==
    fnRet # Pending =>
        /\ NormalizedEmpty
        /\ \A field \in {"state", "roles", "markers"} :
                NormalizedField(field) =
                    IF GivenField(field) # Undef THEN GivenField(field) ELSE DefaultOf(field)

\* C7 as amended: an absent or empty payload normalizes to the defaults, and
\* every reserved-namespace field that holds a truthy value is kept; a field
\* that is missing or holds a falsy value (null, "", 0, false) gets the default.
C7_NormalizeKeepsTruthyFields ==
    fnRet # Pending =>
        /\ NormalizedEmpty
        /\ IsNormalized(fnRet)
        /\ \A field \in {"state", "roles", "markers"} :
                NormalizedField(field) =
                    IF Truthy(GivenField(field)) THEN GivenField(field) ELSE DefaultOf(field)

\* a payload whose roles are null and whose state and markers are given
C7_Witness ==
    /\ fnRet # Pending
    /\ GivenField("roles") = Null /\ NormalizedField("roles") = Arr(<<>>)
    /\ GivenField("state") = Str("ModeratorApproved")
    /\ NormalizedField("state") = Str("ModeratorApproved")
    /\ NormalizedField("markers") = Arr(<<Str("vip")>>)

\* the defaults a caller of get passes
Defaults == {Str("fallback")}

\* C8: for a key with no get handler, on a store that has been reset, get
\* returns the default when the stored value is undefined and the stored value
\* itself otherwise (false, null, 0 and empty collections included).
C8_GetDefaultOnlyWhenAbsent ==
    user.identity # Undef =>
        \A key \in {k \in Keys : ~Delegated("get", k)}, d \in Defaults :
            LET stored == Prop(_attrLocation(user, key), key)
            IN get(user, key, d).ret = IF stored = Undef THEN d ELSE stored

\* the values callers ask has and any about
ProbeValues ==
    {Str("http://a.example/"), Str("http://b.example/"), Str("moderator"),
     Str("vip"), Str("bob")}

\* C9: on a store that has been reset, has(key, v) and any(key, [v]) return
\* the same for every key and every value.
C9_HasEqualsAny ==
    user.identity # Undef =>
        \A key \in Keys, v \in ProbeValues :
            has(user, key, v).ret = any(user, key, Arr(<<v>>)).ret

\* the store after a reset to the empty payload
EmptyStore ==
    [data |->
        Obj([k \in {"echo", "poco", "identities"} |->
                CASE k = "echo" -> EchoOf(Str("Untouched"), Arr(<<>>), Arr(<<>>))
                  [] k = "poco" -> Obj([j \in {"entry"} |-> EmptyObj])
                  [] k = "identities" -> Arr(<<>>)]),
     identity |-> EmptyObj]

\* C10: logout on a constructed session for which is("logged") is false
\* leaves the empty normalized store, runs its callback (if any) within the
\* call, sends no request, queues nothing, and keeps the lifecycle state.
C10_AnonymousLogout ==
    [][(lastOp'.op = "logout" /\ is(user, "logged").ret = Bool(FALSE)) =>
            /\ user' = EmptyStore
            /\ state' = state
            /\ RequestsOf(out') = <<>>
            /\ whoami' = whoami /\ logouts' = logouts
            /\ onInitSubs' = onInitSubs
            /\ CallbacksOf(out') = DirectCallback(lastOp'.cb)
            /\ lastOp'.cb.kind = "logout" => fired'[lastOp'.cb.id] = 1]_vars

\* an anonymous logout with a callback, on a session that was ready
C10_Witness ==
    /\ lastOp.op = "logout" /\ lastOp.arg = Bool(FALSE) /\ lastOp.pre = "ready"
    /\ lastOp.cb.kind = "logout" /\ CallbacksOf(out) = <<lastOp.cb>>
    /\ user = EmptyStore /\ state = "ready"

-----------------------------------------------------------------------------
(* Properties of logout and of the Backplane listener *)

\* what logout sends when an identity is logged in: one logout request with
\* the current channel id, nothing else, the lifecycle state kept
LogoutSendsChannelID ==
    (lastOp'.op = "logout" /\ lastOp'.arg = Bool(TRUE)) =>
        /\ Len(out') = 1 /\ out'[1].ev = "request" /\ out'[1].topic = "logout"
        /\ out'[1].data = Obj([k \in {"sessionID"} |-> Str(ChannelID)])
        /\ logouts' = Append(logouts, [params |-> out'[1].data, cb |-> lastOp'.cb])
        /\ whoami' = whoami /\ state' = state

\* C11 as stated: logout with an identity logged in sends a logout request
\* with the current channel id, and the response to it, by itself, resolves
\* the session again: it sends an identity-fetch and the state is waiting.
C11_LogoutResponseFetches ==
    [][/\ LogoutSendsChannelID
       /\ lastOp'.op = "logoutResponse" =>
            /\ state' = "waiting"
            /\ Len(RequestsOf(out')) = 1 /\ RequestsOf(out')[1].topic = "whoami"
            /\ Len(whoami') = Len(whoami) + 1]_vars

\* C11 as amended: logout with an identity logged in sends a logout request
\* with the current channel id; the response to it sends no request and keeps
\* state and store: it queues the callback for the next onInit and tells
\* Backplane to expect identity/ack. The identity-fetch is sent when that
\* message arrives.
C11_LogoutResponseAwaitsAck ==
    [][/\ LogoutSendsChannelID
       /\ lastOp'.op = "logoutResponse" =>
            /\ RequestsOf(out') = <<>> /\ CallbacksOf(out') = <<>>
            /\ Len(out') = 1 /\ out'[1].ev = "expectMessages"
            /\ out'[1].topic = "identity/ack"
            /\ state' = state /\ user' = user /\ whoami' = whoami
            /\ onInitSubs' = onInitSubs \o DirectCallback(lastOp'.cb)
       /\ (lastOp'.op = "message" /\ lastOp'.arg = Str("identity/ack")) =>
            /\ state' = "waiting"
            /\ Len(whoami') = Len(whoami) + Len(subscribers)]_vars

\* the response to a logout has come on a ready session whose store still
\* holds the logged-in user: the callback is queued and no fetch is in flight
C11_Witness ==
    /\ lastOp.op = "logoutResponse" /\ lastOp.cb.kind = "logout"
    /\ state = "ready" /\ whoami = <<>>
    /\ onInitSubs = <<lastOp.cb>>
    /\ is(user, "logged").ret = Bool(TRUE)

\* C12: whatever constructions were made (with an app key or without, in any
\* lifecycle state), Backplane holds at most one subscription of the session:
\* none before the first accepted construction, exactly one from then on, the
\* one whose id the session keeps.
C12_OneBackplaneSubscription ==
    /\ Len(subscribers) <= 1
    /\ state = "none" <=> subscribers = <<>>
    /\ subscribers # <<>> => backplaneSubscriptionID = subscribers[1]

\* three constructions have been made, the last one without an app key on a
\* ready session, and one subscription exists
C12_Witness ==
    /\ calls = 3 /\ \A id \in 1..2 : fired[id] = 1
    /\ lastOp.op = "construct" /\ ~ValidConfig(lastOp.arg) /\ lastOp.pre = "ready"
    /\ Len(subscribers) = 1

\* C13: an identity/ack message starts a resolution: the state becomes
\* waiting and an identity-fetch is sent whose continuation is the
\* onInvalidate publisher; when the response to that fetch is processed,
\* onInvalidate is published once, as the last effect, after the onInit of
\* the same response, with the data the store then holds; a message of any
\* other type changes nothing, sends nothing and publishes nothing.
C13_AckInvalidates ==
    [][/\ (lastOp'.op = "message" /\ lastOp'.arg = Str("identity/ack")) =>
            /\ state' = "waiting"
            /\ Len(out') = 1 /\ out'[1].ev = "request" /\ out'[1].topic = "whoami"
            /\ whoami' = Append(whoami, [params |-> out'[1].data, cb |-> InvalidateCb])
            /\ user' = user /\ onInitSubs' = onInitSubs
       /\ (lastOp'.op = "whoami" /\ lastOp'.cb.kind = "invalidate") =>
            LET n == Len(out')
                invalidations == SelectSeq(out', LAMBDA e :
                                    e.ev = "publish" /\ e.topic = OnInvalidateTopic)
            IN /\ n >= 2
               /\ out'[1].ev = "publish" /\ out'[1].topic = OnInitTopic
               /\ invalidations = <<out'[n]>>
               /\ out'[n].data = user'.data /\ out'[n].store = user'.data
               /\ out'[n].state = "ready"
       /\ (lastOp'.op = "message" /\ lastOp'.arg # Str("identity/ack")) =>
            /\ out' = <<>>
            /\ UNCHANGED <<state, user, config, backplaneSubscriptionID, subscribers,
                           whoami, logouts, onInitSubs, fired>>]_vars

\* the response to the fetch of an identity/ack has been processed on a
\* session that was resolved before: onInvalidate carries the logged-in user
C13_Witness ==
    /\ lastOp.op = "whoami" /\ lastOp.cb.kind = "invalidate" /\ lastOp.pre = "waiting"
    /\ Len(out) = 2 /\ out[1].topic = OnInitTopic /\ out[2].topic = OnInvalidateTopic
    /\ out[2].data = user.data
    /\ is(user, "logged").ret = Bool(TRUE)
    /\ fired[1] = 1

-----------------------------------------------------------------------------
(* Echo.Canvas. The handlers of a canvas are functions from the page before *)
(* to the page after: the page w holds the session s, the canvases, the     *)
(* markers of the containers and the defined components. A canvas keeps its *)
(* container, its config, its data, its registry of apps, the position pc   *)
(* of its bootstrap, the resources it waits for, and the trace of what it   *)
(* did, in order.                                                           *)

\* how many canvases a run creates
MaxCanvases == 2
\* how many times a run destroys one canvas
MaxDestroys == 1
\* how many identity-fetch requests the page of canvases sends
MaxFetches == 2

\* the Echo.UserSession object, as a ready callback hands it over
SessionRef == [t |-> "session"]
\* the appBody element of the view of the i-th app
Element(i) == [t |-> "element", i |-> i]
\* the ready callback _initUser passes to Echo.UserSession
CanvasCb(c) == [kind |-> "canvas", id |-> c]

Page ==
    [s |-> Cur, canvases |-> canvases, initialized |-> initialized, defined |-> defined]

Note(w, c, ev, code) ==
    [w EXCEPT !.canvases[c].trace = Append(@, [ev |-> ev, code |-> code])]

At(w, c, pc) == [w EXCEPT !.canvases[c].pc = pc]

\* target.data("canvas-" + item): what the markup of the container gives
ContainerData(target, item) ==
    IF target = "marked-up"
    THEN CASE item = "id" -> Str("canvas-1")
           [] item = "appkey" -> Str("key-1")
           [] OTHER -> Undef
    ELSE Undef

\* $.isEmptyObject
IsEmptyObject(o) ==
    CASE o.t = "object" -> DOMAIN o.f = {}
      [] o.t = "array" -> Len(o.v) = 0
      [] OTHER -> TRUE

\* a.length
Length(a) == IF a.t = "array" THEN Num(Len(a.v)) ELSE Undef

\* the property name a value is converted to
KeyOf(v) ==
    CASE v.t = "string" -> v.s
      [] v.t = "number" ->
            (CASE v.n = 0 -> "0" [] v.n = 1 -> "1" [] v.n = 2 -> "2" [] OTHER -> "<number>")
      [] OTHER -> "<key>"

\* config.extend(extra): every property of extra is set
Extend(o, extra) ==
    Obj([k \in (DOMAIN o.f) \cup (DOMAIN extra.f) |->
            IF k \in DOMAIN extra.f THEN extra.f[k] ELSE o.f[k]])

\* an extend that copies the properties of src as they are, objects whole
DeepExtendShallow(target, src) ==
    Obj([k \in (DOMAIN target.f) \cup (DOMAIN src.f) |->
            IF k \in DOMAIN src.f THEN src.f[k] ELSE target.f[k]])

\* $.extend(true, target, src): plain objects and arrays are merged property
\* by property, undefined is skipped, everything else is copied
RECURSIVE DeepExtend(_, _)
DeepExtend(target, src) ==
    IF src.t = "object"
    THEN LET base == IF target.t = "object" THEN target.f ELSE EmptyObj.f
             given == {k \in DOMAIN src.f : src.f[k] # Undef}
         IN Obj([k \in (DOMAIN base) \cup given |->
                    IF k \notin given THEN base[k]
                    ELSE IF src.f[k].t \in {"object", "array"}
                    THEN DeepExtend(IF k \in DOMAIN base THEN base[k] ELSE Undef, src.f[k])
                    ELSE src.f[k]])
    ELSE LET base == IF target.t = "array" THEN target.v ELSE <<>>
             n == IF Len(base) > Len(src.v) THEN Len(base) ELSE Len(src.v)
         IN Arr([i \in 1..n |->
                    IF i > Len(src.v) \/ src.v[i] = Undef THEN base[i]
                    ELSE IF src.v[i].t \in {"object", "array"}
                    THEN DeepExtend(IF i <= Len(base) THEN base[i] ELSE Undef, src.v[i])
                    ELSE src.v[i]])

\* _error(args): the onError event in debug mode only, the log always, the
\* message in the container when the error asks for it
_error(w, c, code, renderError, message) ==
    LET w1 == IF debug THEN Note(w, c, "onError", code) ELSE w
        w2 == Note(w1, c, "log", code)
    IN IF renderError THEN Note(w2, c, "showMessage", message) ELSE w2

\* overrides that leave the app key of the container out
_getOverridesIdOnly(target) ==
    Obj([item \in {i \in {"id"} : ContainerData(target, i) # Undef} |->
            ContainerData(target, item)])

\* _getOverrides(target, ["id", "appkey"])
_getOverrides(target) ==
    Obj([item \in {i \in {"id", "appkey"} : ContainerData(target, i) # Undef} |->
            ContainerData(target, item)])

\* a test that takes a canvas with data for one without
_isManuallyConfiguredInverted(cv) == IsEmptyObject(cv.data)

_isManuallyConfigured(cv) == ~IsEmptyObject(cv.data)

_getAppScriptURL(app) ==
    LET scripts == Prop(app, "scripts")
    IN IF Truthy(scripts) /\ Truthy(Prop(scripts, "dev")) /\ Truthy(Prop(scripts, "prod"))
       THEN Prop(scripts, IF debug THEN "dev" ELSE "prod")
       ELSE Prop(app, "script")

\* an _initApp that puts the new instance in front of the registry
_initAppPrepends(w, c, i) ==
    LET cv == w.canvases[c]
        apps == Prop(cv.data, "apps").v
        app == apps[i]
        component == Prop(app, "component")
    IN IF ~(component.t = "string" /\ component.s \in w.defined)
       THEN _error(w, c, "no_suitable_app_class", FALSE, "")
       ELSE LET id == OrElse(Prop(app, "id"), Num(i - 1))
                own == SetProp(SetProp(OrElse(Prop(app, "config"), EmptyObj),
                                       "user", Prop(cv.config, "user")),
                               "target", Element(i - 1))
                overrides == Prop(Prop(cv.config, "overrides"), KeyOf(id))
                cfg == IF Truthy(overrides) THEN DeepExtend(own, overrides) ELSE own
                kept == SetProp(SetProp(app, "id", id), "config", cfg)
            IN [Note(w, c, "new", component.s) EXCEPT
                    !.canvases[c].data = SetProp(cv.data, "apps", Arr([apps EXCEPT ![i] = kept])),
                    !.canvases[c].apps =
                        <<[component |-> component.s, config |-> cfg, destroyed |-> 0]>> \o @]

\* _initApp(app, element, id) for the i-th descriptor of data.apps; the
\* descriptor keeps the id and the config it is given
_initApp(w, c, i) ==
    LET cv == w.canvases[c]
        apps == Prop(cv.data, "apps").v
        app == apps[i]
        component == Prop(app, "component")
    IN IF ~(component.t = "string" /\ component.s \in w.defined)
       THEN _error(w, c, "no_suitable_app_class", FALSE, "")
       ELSE LET id == OrElse(Prop(app, "id"), Num(i - 1))
                own == SetProp(SetProp(OrElse(Prop(app, "config"), EmptyObj),
                                       "user", Prop(cv.config, "user")),
                               "target", Element(i - 1))
                overrides == Prop(Prop(cv.config, "overrides"), KeyOf(id))
                cfg == IF Truthy(overrides) THEN DeepExtend(own, overrides) ELSE own
                kept == SetProp(SetProp(app, "id", id), "config", cfg)
            IN [Note(w, c, "new", component.s) EXCEPT
                    !.canvases[c].data = SetProp(cv.data, "apps", Arr([apps EXCEPT ![i] = kept])),
                    !.canvases[c].apps =
                        Append(@, [component |-> component.s, config |-> cfg, destroyed |-> 0])]

\* renderers.container: _initApp for the first n descriptors of data.apps
RECURSIVE container(_, _, _)
container(w, c, n) ==
    IF n = 0 THEN w ELSE _initApp(container(w, c, n - 1), c, n)

\* this.parent: the init of Echo.Control renders the canvas
parent(w, c) ==
    At(container(w, c, Len(Prop(w.canvases[c].data, "apps").v)), c, "rendered")

\* Echo.Loader.download(resources, callback): the resources are requested;
\* with nothing to request the callback runs at once
Download(w, c) ==
    LET resources == w.canvases[c].pending
    IN IF resources = <<>> THEN parent(w, c)
       ELSE At([w EXCEPT !.canvases[c].trace =
                    @ \o [i \in 1..Len(resources) |->
                            [ev |-> "download", code |-> KeyOf(resources[i].url)]]],
               c, "loading")

\* the body of the loop of _loadAppResources, for the i-th descriptor
CheckApp(w, c, i, isManual) ==
    LET app == Prop(w.canvases[c].data, "apps").v[i]
        script == _getAppScriptURL(app)
    IN IF \/ ~Truthy(Prop(app, "component"))
          \/ ~Truthy(script)
          \/ ~(isManual \/ Truthy(Prop(app, "id")))
       THEN _error(w, c, "incomplete_app_config", FALSE, "")
       ELSE [w EXCEPT !.canvases[c].pending =
                Append(@, [url |-> script, component |-> Prop(app, "component")])]

RECURSIVE CheckApps(_, _, _, _)
CheckApps(w, c, n, isManual) ==
    IF n = 0 THEN w ELSE CheckApp(CheckApps(w, c, n - 1, isManual), c, n, isManual)

_loadAppResources(w, c) ==
    LET cv == w.canvases[c]
    IN Download(CheckApps(w, c, Len(Prop(cv.data, "apps").v), _isManuallyConfigured(cv)), c)

\* the callback init passes to _initUser
OnUser(w, c, u) ==
    _loadAppResources([w EXCEPT !.canvases[c].config = SetProp(@, "user", u)], c)

\* an _initUser that resolves the session whenever there is an app key,
\* a supplied session object or not
_initUserIgnoresSupplied(w, c) ==
    LET cv == w.canvases[c]
        u == Prop(cv.config, "user")
        appkey == Prop(cv.config, "appkey")
    IN IF ~Truthy(appkey) THEN OnUser(w, c, u)
       ELSE LET w1 == Note(w, c, "Echo.UserSession", KeyOf(appkey))
                s1 == _construct(w1.s, Obj([k \in {"appkey"} |-> appkey]), CanvasCb(c))
                w2 == [w1 EXCEPT !.s = s1]
            IN IF s1.fired[c] > w.s.fired[c] THEN OnUser(w2, c, SessionRef)
               ELSE At(w2, c, "session")

\* _initUser: the callback runs within the call when no session is to be
\* resolved, or when the session is ready; else it waits for the session
_initUser(w, c) ==
    LET cv == w.canvases[c]
        u == Prop(cv.config, "user")
        appkey == Prop(cv.config, "appkey")
    IN IF Truthy(u) \/ ~Truthy(appkey) THEN OnUser(w, c, u)
       ELSE LET w1 == Note(w, c, "Echo.UserSession", KeyOf(appkey))
                s1 == _construct(w1.s, Obj([k \in {"appkey"} |-> appkey]), CanvasCb(c))
                w2 == [w1 EXCEPT !.s = s1]
            IN IF s1.fired[c] > w.s.fired[c] THEN OnUser(w2, c, SessionRef)
               ELSE At(w2, c, "session")

_initBackplane(w, c) == _initUser(Note(w, c, "Backplane.init", ""), c)

\* a callback that drops the answer of the storage: the canvas goes on waiting
OnConfigDropsAnswer(w, c, cfgData) == w

\* a callback that takes an empty list of apps for a config to go on with
OnConfigAcceptsNoApps(w, c, cfgData) ==
    IF ~Truthy(cfgData) \/ ~Truthy(Prop(cfgData, "apps"))
    THEN At(_error(w, c, "invalid_canvas_config", TRUE,
                   IF Truthy(cfgData) THEN "error_no_apps" ELSE "error_no_config"),
            c, "halted")
    ELSE _initBackplane([w EXCEPT !.canvases[c].data = cfgData], c)

\* the callback init passes to _fetchConfig
OnConfig(w, c, cfgData) ==
    IF \/ ~Truthy(cfgData)
       \/ ~Truthy(Prop(cfgData, "apps"))
       \/ ~Truthy(Length(Prop(cfgData, "apps")))
    THEN At(_error(w, c, "invalid_canvas_config", TRUE,
                   IF Truthy(cfgData) THEN "error_no_apps" ELSE "error_no_config"),
            c, "halted")
    ELSE _initBackplane([w EXCEPT !.canvases[c].data = cfgData], c)

_fetchConfig(w, c) ==
    LET cv == w.canvases[c]
    IN IF _isManuallyConfigured(cv) THEN OnConfig(w, c, cv.data)
       ELSE At(Note(w, c, "request", KeyOf(Prop(cv.config, "id"))), c, "fetching")

\* a guard that reads a marker no one sets
IsInitializedOtherKey(w, target) == Truthy(Undef)

\* target.data("echo-canvas-initialized"), as the guard of init reads it
IsInitialized(w, target) == Truthy(w.initialized[target])

\* canvas.init of the canvas c, just created
canvasInit(w, c) ==
    LET target == w.canvases[c].target
        overrides == _getOverrides(target)
        w1 == IF IsEmptyObject(overrides) THEN w
              ELSE [w EXCEPT !.canvases[c].config = Extend(@, overrides)]
        cv == w1.canvases[c]
    IN IF IsInitialized(w, target)
       THEN At(_error(w, c, "canvas_already_initialized", FALSE, ""), c, "rejected")
       ELSE IF /\ ~_isManuallyConfigured(cv)
               /\ ~(Truthy(Prop(cv.config, "id")) /\ Truthy(Prop(cv.config, "appkey")))
       THEN At(_error(w1, c, "invalid_canvas_config", FALSE, ""), c, "invalid")
       ELSE _fetchConfig([w1 EXCEPT !.initialized[target] = Bool(TRUE)], c)

\* _destroyApp
_destroyApp(app) == [app EXCEPT !.destroyed = @ + 1]

\* a destroy that leaves the marker of the container as it is
canvasDestroyKeepsMarker(w, c) ==
    LET cv == w.canvases[c]
    IN [w EXCEPT !.canvases[c].apps = [i \in 1..Len(cv.apps) |-> _destroyApp(cv.apps[i])],
                 !.canvases[c].destroyed = @ + 1]

\* canvas.destroy
canvasDestroy(w, c) ==
    LET cv == w.canvases[c]
    IN [w EXCEPT !.canvases[c].apps = [i \in 1..Len(cv.apps) |-> _destroyApp(cv.apps[i])],
                 !.canvases[c].destroyed = @ + 1,
                 !.initialized[cv.target] = Bool(FALSE)]

-----------------------------------------------------------------------------
(* The inputs of a canvas: what the page passes and what the storage answers *)

\* a complete descriptor with a single script, an id and a config of its own
StreamApp ==
    Obj("component" :> Str("Stream") @@ "script" :> Str("stream.js")
            @@ "id" :> Str("stream-1")
            @@ "config" :> Obj("itemsPerPage" :> Num(5)))

\* a complete descriptor with a dev/prod pair of scripts and no id
CounterApp ==
    Obj("component" :> Str("Counter")
            @@ "scripts" :> Obj("dev" :> Str("counter.dev.js") @@ "prod" :> Str("counter.js")))

\* a descriptor with no script
ScriptlessApp == Obj("component" :> Str("Stream") @@ "id" :> Str("stream-2"))

DataOne ==
    Obj("apps" :> Arr(<<StreamApp>>) @@ "backplane" :> Obj("busName" :> Str("bus")))
DataThree == Obj("apps" :> Arr(<<StreamApp, ScriptlessApp, CounterApp>>))
DataNoApps == Obj("apps" :> Arr(<<>>))

\* a descriptor with no script, of a component no script of the page defines
PollApp == Obj("component" :> Str("Poll") @@ "id" :> Str("poll-1"))

\* a complete descriptor whose config has a nested part
TunedApp ==
    Obj("component" :> Str("Stream") @@ "script" :> Str("stream.js")
            @@ "id" :> Str("stream-3")
            @@ "config" :> Obj("itemsPerPage" :> Num(5) @@ "sortOrder" :> Str("reverse")
                                @@ "filter" :> Obj("state" :> Str("all")
                                                    @@ "depth" :> Num(2))))

DataTwo == Obj("apps" :> Arr(<<CounterApp, PollApp, TunedApp>>))

\* overrides for the app without an id at position 0 and for the app stream-3
AppOverrides ==
    Obj("0" :> Obj("caption" :> Str("Count"))
            @@ "stream-3" :> Obj("itemsPerPage" :> Num(10)
                                  @@ "filter" :> Obj("state" :> Str("approved"))))

\* the storage request failed
RequestFailed == [t |-> "failure"]

\* what comes back for a config-storage request
StorageResults == {RequestFailed, EmptyObj, DataThree}

\* a session object the page made itself
SuppliedUser == Obj("supplied" :> Bool(TRUE))

CanvasConfig(id, appkey, data, u) ==
    Obj("id" :> id @@ "appkey" :> appkey @@ "data" :> data @@ "user" :> u
            @@ "overrides" :> EmptyObj)

\* what the page passes to new Echo.Canvas(config), the target aside
CanvasConfigs ==
    {CanvasConfig(Str("canvas-2"), Str("key-2"), Undef, Undef),
     CanvasConfig(Str("canvas-2"), Undef, Undef, Undef),
     CanvasConfig(Undef, Str("key-2"), Undef, Undef),
     CanvasConfig(Undef, Undef, DataOne, Undef),
     CanvasConfig(Undef, Undef, DataOne, SuppliedUser),
     CanvasConfig(Undef, Undef, DataNoApps, Undef),
     SetProp(CanvasConfig(Undef, Undef, DataTwo, Undef), "overrides", AppOverrides)}

\* what the server answers to the identity-fetch of a page of canvases
PageResponses == {LoggedIn}

\* the canvas new Echo.Canvas(config) makes, before its init runs; its data
\* is the data of its config, {} by default
NewCanvas(target, cfg) ==
    [target |-> target, config |-> cfg,
     data |-> IF Prop(cfg, "data") = Undef THEN EmptyObj ELSE Prop(cfg, "data"),
     apps |-> <<>>, pc |-> "created", pending |-> <<>>, trace |-> <<>>, destroyed |-> 0]

-----------------------------------------------------------------------------
(* The operations of a page of canvases *)

AssignPage(w) ==
    /\ AssignSession(w.s)
    /\ canvases' = w.canvases
    /\ initialized' = w.initialized
    /\ defined' = w.defined
    /\ fetches' = fetches + Len(SelectSeq(w.s.out, LAMBDA e :
                                    e.ev = "request" /\ e.topic = "whoami"))
    /\ UNCHANGED <<calls, debug, fnArg, fnRet>>

\* new Echo.Canvas(config) on a container: the canvas is made and init runs
CanvasInit(target, cfg) ==
    /\ Len(canvases) < MaxCanvases
    /\ LET c == Len(canvases) + 1
       IN /\ AssignPage(canvasInit([Page EXCEPT !.canvases =
                                        Append(@, NewCanvas(target, cfg))], c))
          /\ lastOp' = Op("canvas.init", cfg, CanvasCb(c))
    /\ UNCHANGED acked

\* the answer to the config-storage request of canvas c arrives
StorageResponse(c, result) ==
    /\ c \in 1..Len(canvases)
    /\ canvases[c].pc = "fetching"
    /\ AssignPage(IF result = RequestFailed
                  THEN OnConfig(_error(Page, c, "unable_to_retrieve_app_config", FALSE, ""),
                                c, Undef)
                  ELSE OnConfig(Page, c, result))
    /\ lastOp' = Op("storage", result, CanvasCb(c))
    /\ UNCHANGED acked

\* the ready callbacks of canvases among the callbacks the session ran
RECURSIVE RunCallbacks(_, _)
RunCallbacks(w, cbs) ==
    IF cbs = <<>> THEN w
    ELSE RunCallbacks(IF Head(cbs).kind = "canvas"
                      THEN OnUser(w, Head(cbs).id, SessionRef) ELSE w,
                      Tail(cbs))

\* the answer to an identity-fetch arrives on a page of canvases
PageWhoamiResponse(i, response) ==
    /\ i \in 1..Len(whoami)
    /\ LET s1 == OnWhoami([Cur EXCEPT !.whoami = RemoveAt(@, i)], whoami[i].cb, response)
       IN AssignPage(RunCallbacks([Page EXCEPT !.s = s1], CallbacksOf(s1.out)))
    /\ lastOp' = Op("whoami", Undef, whoami[i].cb)
    /\ UNCHANGED acked

\* Backplane delivers an identity/ack on a page of canvases
PageBackplaneAck ==
    /\ subscribers # <<>>
    /\ Len(whoami) + Len(subscribers) <= MaxInFlight
    /\ fetches + Len(subscribers) <= MaxFetches
    /\ AssignPage([Page EXCEPT !.s = Deliver(Cur, Len(subscribers), "identity/ack")])
    /\ acked' = TRUE
    /\ lastOp' = Op("message", Str("identity/ack"), NoCb)

\* a download whose callback runs as soon as any one resource reports ready
ScriptLoadedFirstReady(c, j) ==
    /\ c \in 1..Len(canvases)
    /\ canvases[c].pc = "loading"
    /\ j \in 1..Len(canvases[c].pending)
    /\ LET resource == canvases[c].pending[j]
           w == [Note(Page, c, "loaded", KeyOf(resource.url)) EXCEPT
                    !.defined = @ \cup {KeyOf(resource.component)},
                    !.canvases[c].pending = RemoveAt(@, j)]
       IN AssignPage(parent(w, c))
    /\ lastOp' = Op("loaded", canvases[c].pending[j].url, CanvasCb(c))
    /\ UNCHANGED acked

\* the j-th resource canvas c waits for reports ready: its script has run and
\* defined its component; with the last one the callback of the download runs
ScriptLoaded(c, j) ==
    /\ c \in 1..Len(canvases)
    /\ canvases[c].pc = "loading"
    /\ j \in 1..Len(canvases[c].pending)
    /\ LET resource == canvases[c].pending[j]
           w == [Note(Page, c, "loaded", KeyOf(resource.url)) EXCEPT
                    !.defined = @ \cup {KeyOf(resource.component)},
                    !.canvases[c].pending = RemoveAt(@, j)]
       IN AssignPage(IF w.canvases[c].pending = <<>> THEN parent(w, c) ELSE w)
    /\ lastOp' = Op("loaded", canvases[c].pending[j].url, CanvasCb(c))
    /\ UNCHANGED acked

\* canvas.destroy() of canvas c
CanvasDestroy(c) ==
    /\ c \in 1..Len(canvases)
    /\ canvases[c].destroyed < MaxDestroys
    /\ AssignPage(canvasDestroy(Page, c))
    /\ lastOp' = Op("canvas.destroy", Undef, CanvasCb(c))
    /\ UNCHANGED acked

InitCanvas ==
    InitSession /\ fnArg = Undef /\ fnRet = Pending /\ InitPage /\ debug \in BOOLEAN

CanvasNext ==
    \/ \E target \in Containers, cfg \in CanvasConfigs : CanvasInit(target, cfg)
    \/ \E c \in 1..MaxCanvases, result \in StorageResults : StorageResponse(c, result)
    \/ \E i \in 1..MaxInFlight, r \in PageResponses : PageWhoamiResponse(i, r)
    \/ PageBackplaneAck
    \/ \E c \in 1..Len(canvases) : \E j \in 1..Len(canvases[c].pending) : ScriptLoaded(c, j)
    \/ \E c \in 1..MaxCanvases : CanvasDestroy(c)

SpecCanvas == InitCanvas /\ [][CanvasNext]_vars

-----------------------------------------------------------------------------
(* Properties of the bootstrap of a canvas *)

\* whether canvas cv did ev
Did(cv, ev) == \E i \in 1..Len(cv.trace) : cv.trace[i].ev = ev

\* the codes of the errors canvas cv reported, in order
Reported(cv) ==
    LET logs == SelectSeq(cv.trace, LAMBDA e : e.ev = "log")
    IN [i \in 1..Len(logs) |-> logs[i].code]

\* a canvas whose bootstrap has gone past the session stage
PastSessionStage(cv) == cv.pc \in {"loading", "rendered"}

\* C14: as long as no identity/ack has come, the canvases of a page send at
\* most one identity-fetch between them, and exactly one once any canvas has
\* asked for the session; every canvas that asked is past the session stage
\* as soon as the session is ready, and holds the one session object.
C14_CanvasesShareOneFetch ==
    ~acked =>
        /\ fetches <= 1
        /\ \A c \in 1..Len(canvases) :
                Did(canvases[c], "Echo.UserSession") =>
                    /\ fetches = 1
                    /\ state = "ready" <=> PastSessionStage(canvases[c])
                    /\ PastSessionStage(canvases[c]) =>
                            Prop(canvases[c].config, "user") = SessionRef

\* two canvases asked for the session while it was being resolved, one
\* fetch was sent, and the response has taken both past the session stage
C14_Witness ==
    /\ ~acked /\ fetches = 1 /\ Len(canvases) = 2
    /\ lastOp.op = "whoami" /\ Len(CallbacksOf(out)) = 2
    /\ \A c \in 1..2 :
            /\ Did(canvases[c], "Echo.UserSession")
            /\ PastSessionStage(canvases[c])
            /\ Prop(canvases[c].config, "user") = SessionRef

\* the canvas a step creates, and what the steps of a page leave alone
Created == canvases'[Len(canvases')]

SessionUntouched ==
    /\ out' = <<>>
    /\ UNCHANGED <<state, user, config, backplaneSubscriptionID, subscribers,
                   whoami, logouts, onInitSubs, fired>>

\* the canvas created is turned away by the guard: the already-initialized
\* error is its only effect, and nothing else on the page changes
Rejected ==
    /\ Created.pc = "rejected"
    /\ Reported(Created) = <<"canvas_already_initialized">>
    /\ \A i \in 1..Len(Created.trace) : Created.trace[i].ev \in {"onError", "log"}
    /\ Created.apps = <<>> /\ Created.pending = <<>>
    /\ canvases' = Append(canvases, Created)
    /\ initialized' = initialized /\ defined' = defined /\ fetches' = fetches
    /\ SessionUntouched

\* no canvas of the container has been destroyed
NeverTornDown(target) ==
    \A b \in 1..Len(canvases) : canvases[b].target = target => canvases[b].destroyed = 0

\* C15 as stated: a bootstrap on a container on which a bootstrap was
\* attempted before, with no destroy in between, is turned away with the
\* already-initialized error and has no other effect.
C15_SecondAttemptRejected ==
    [][(/\ lastOp'.op = "canvas.init"
        /\ \E b \in 1..Len(canvases) : canvases[b].target = Created.target
        /\ NeverTornDown(Created.target)) => Rejected]_vars

\* C15 as amended: a bootstrap on a container on which an earlier bootstrap
\* got past the validation of id and app key (and so set the marker), with no
\* destroy in between, is turned away with the already-initialized error and
\* has no other effect: no request, no marker change, no messaging init, no
\* session resolution, no instantiation.
C15_BootstrapAfterMarkedRejected ==
    [][(/\ lastOp'.op = "canvas.init"
        /\ \E b \in 1..Len(canvases) :
                /\ canvases[b].target = Created.target
                /\ canvases[b].pc \notin {"rejected", "invalid"}
        /\ NeverTornDown(Created.target)) => Rejected]_vars

\* a second canvas has been turned away on the container of a rendered one
C15_Witness ==
    /\ lastOp.op = "canvas.init" /\ Len(canvases) = 2
    /\ canvases[2].pc = "rejected" /\ canvases[1].pc = "rendered"
    /\ canvases[1].target = canvases[2].target
    /\ canvases[1].destroyed = 0
    /\ Reported(canvases[2]) = <<"canvas_already_initialized">>
    /\ initialized[canvases[2].target] = Bool(TRUE)

\* id and app key as a canvas resolves them: the attribute of the container
\* first, the config of the caller when the container has none
Resolved(target, cfg, item) ==
    IF ContainerData(target, item) # Undef THEN ContainerData(target, item)
    ELSE Prop(cfg, item)

\* the caller supplied the data of the canvas
Supplied(cfg) == ~IsEmptyObject(Prop(cfg, "data"))

\* C16: a bootstrap that the guard lets pass, of a canvas with no supplied
\* data whose id or app key does not resolve, fails with invalid_canvas_config
\* as its only effect: no request is sent and the marker of the container is
\* not set; when both resolve, the marker is set and the bootstrap goes on.
C16_UnresolvedIdOrAppkey ==
    [][(/\ lastOp'.op = "canvas.init"
        /\ ~Truthy(initialized[Created.target])
        /\ ~Supplied(lastOp'.arg)) =>
            IF /\ Truthy(Resolved(Created.target, lastOp'.arg, "id"))
               /\ Truthy(Resolved(Created.target, lastOp'.arg, "appkey"))
            THEN /\ initialized'[Created.target] = Bool(TRUE)
                 /\ Created.pc = "fetching" /\ Reported(Created) = <<>>
            ELSE /\ Created.pc = "invalid"
                 /\ Reported(Created) = <<"invalid_canvas_config">>
                 /\ \A i \in 1..Len(Created.trace) :
                        Created.trace[i].ev \in {"onError", "log"}
                 /\ initialized' = initialized
                 /\ canvases' = Append(canvases, Created)
                 /\ SessionUntouched /\ fetches' = fetches]_vars

\* a canvas with an id and no app key, on the container without attributes,
\* has failed and the marker is not set
C16_Witness ==
    /\ lastOp.op = "canvas.init" /\ Len(canvases) = 1
    /\ canvases[1].target = "bare" /\ canvases[1].pc = "invalid"
    /\ Prop(canvases[1].config, "id") = Str("canvas-2")
    /\ Prop(canvases[1].config, "appkey") = Undef
    /\ Reported(canvases[1]) = <<"invalid_canvas_config">>
    /\ initialized["bare"] = Undef

\* component and script of every descriptor of a config
Descriptors(d) ==
    [i \in 1..Len(Prop(d, "apps").v) |->
        <<Prop(Prop(d, "apps").v[i], "component"), _getAppScriptURL(Prop(d, "apps").v[i])>>]

\* C17: a canvas whose data the caller supplied never sends a config-storage
\* request, and its pipeline runs on the supplied data: the data of the canvas
\* is the supplied data until the apps are made, and the same descriptors after.
C17_SuppliedDataNotFetched ==
    \A c \in 1..Len(canvases) :
        Supplied(canvases[c].config) =>
            /\ ~Did(canvases[c], "request")
            /\ canvases[c].pc # "fetching"
            /\ canvases[c].pc # "rendered" =>
                    canvases[c].data = Prop(canvases[c].config, "data")
            /\ Descriptors(canvases[c].data) = Descriptors(Prop(canvases[c].config, "data"))

\* a canvas with supplied data is downloading the script of its app, having
\* initialized messaging and sent no request
C17_Witness ==
    /\ Len(canvases) = 1 /\ canvases[1].pc = "loading"
    /\ Prop(canvases[1].config, "data") = DataOne /\ canvases[1].data = DataOne
    /\ Did(canvases[1], "Backplane.init") /\ Did(canvases[1], "download")
    /\ ~Did(canvases[1], "request")

\* the canvas a step is about, and what that canvas did in the step
Acting == lastOp'.cb.id

Added ==
    LET before == IF Acting <= Len(canvases) THEN Len(canvases[Acting].trace) ELSE 0
    IN SubSeq(canvases'[Acting].trace, before + 1, Len(canvases'[Acting].trace))

\* the codes of the errors reported in the step
ReportedNow ==
    LET logs == SelectSeq(Added, LAMBDA e : e.ev = "log")
    IN [i \in 1..Len(logs) |-> logs[i].code]

\* the step ran nothing of the stages after the config: no messaging init,
\* no session resolution, no download, no instantiation
NoLaterStage ==
    /\ \A i \in 1..Len(Added) :
            Added[i].ev \notin {"Backplane.init", "Echo.UserSession", "download", "loaded", "new"}
    /\ canvases'[Acting].apps = <<>> /\ canvases'[Acting].pending = <<>>
    /\ defined' = defined /\ fetches' = fetches
    /\ SessionUntouched

\* C18: when the config-storage request of a canvas fails, exactly one error
\* is reported for it, unable_to_retrieve_app_config, and the pipeline ends
\* there: no later stage runs and no app is made.
C18_StorageFailureReportedOnce ==
    [][(lastOp'.op = "storage" /\ lastOp'.arg = RequestFailed) =>
            /\ ReportedNow = <<"unable_to_retrieve_app_config">>
            /\ canvases'[Acting].pc = "halted"
            /\ NoLaterStage]_vars

\* the config a step resolves: what the storage answered (nothing when the
\* request failed), or the data supplied to a canvas the guard lets pass
ResolvesConfig ==
    \/ lastOp'.op = "storage"
    \/ /\ lastOp'.op = "canvas.init"
       /\ Supplied(lastOp'.arg) /\ ~Truthy(initialized[Created.target])

ResolvedConfig ==
    IF lastOp'.op = "canvas.init" THEN Prop(lastOp'.arg, "data")
    ELSE IF lastOp'.arg = RequestFailed THEN Undef ELSE lastOp'.arg

\* a config that is absent, empty, or has no descriptor
NoDescriptors(d) == d = Undef \/ IsEmptyObject(d) \/ Prop(d, "apps") = Arr(<<>>)

\* C19 as stated: when the resolved config is absent, empty or without
\* descriptors, the pipeline ends with the error invalid_config reported, and
\* none of messaging init, session resolution, download, instantiation is done.
C19_EmptyConfigInvalidConfig ==
    [][(ResolvesConfig /\ NoDescriptors(ResolvedConfig)) =>
            /\ ReportedNow # <<>>
            /\ ReportedNow[Len(ReportedNow)] = "invalid_config"
            /\ canvases'[Acting].pc = "halted"
            /\ NoLaterStage]_vars

\* C19 as amended: when the resolved config is absent, empty or without
\* descriptors, the pipeline ends with the error invalid_canvas_config
\* reported and shown in the container (no config, or no apps), and none of
\* messaging init, session resolution, download, instantiation is done.
C19_EmptyConfigInvalidCanvasConfig ==
    [][(ResolvesConfig /\ NoDescriptors(ResolvedConfig)) =>
            /\ ReportedNow # <<>>
            /\ ReportedNow[Len(ReportedNow)] = "invalid_canvas_config"
            /\ Added[Len(Added)] =
                    [ev |-> "showMessage",
                     code |-> IF ResolvedConfig = Undef THEN "error_no_config"
                              ELSE "error_no_apps"]
            /\ canvases'[Acting].pc = "halted"
            /\ NoLaterStage]_vars

\* the storage has answered a canvas with an empty config: the canvas is
\* halted with the error shown and messaging was never initialized
C19_Witness ==
    /\ lastOp.op = "storage" /\ lastOp.arg = EmptyObj
    /\ canvases[lastOp.cb.id].pc = "halted"
    /\ Reported(canvases[lastOp.cb.id]) = <<"invalid_canvas_config">>
    /\ Did(canvases[lastOp.cb.id], "showMessage")
    /\ ~Did(canvases[lastOp.cb.id], "Backplane.init")
    /\ initialized[canvases[lastOp.cb.id].target] = Bool(TRUE)

\* the step takes canvas Acting through the config stage to the session stage
ReachesSessionStage ==
    \E i \in 1..Len(Added) : Added[i].ev = "Backplane.init"

\* the step starts the resource stage of canvas Acting
StartsResourceStage ==
    /\ PastSessionStage(canvases'[Acting])
    /\ Acting <= Len(canvases) => ~PastSessionStage(canvases[Acting])

\* C20: a canvas that reaches the session stage with a session object
\* supplied in its config, or with no app key, resolves no session and starts
\* the resource stage in the same step, with the supplied session (or none);
\* any other canvas asks for the shared session, and its resource stage only
\* ever starts in a step that leaves the session ready.
C20_SessionStage ==
    [][/\ (lastOp'.op \in {"canvas.init", "storage"} /\ ReachesSessionStage) =>
            LET before == IF lastOp'.op = "canvas.init"
                          THEN Extend(lastOp'.arg, _getOverrides(Created.target))
                          ELSE canvases[Acting].config
            IN IF Truthy(Prop(before, "user")) \/ ~Truthy(Prop(before, "appkey"))
               THEN /\ \A i \in 1..Len(Added) : Added[i].ev # "Echo.UserSession"
                    /\ SessionUntouched /\ fetches' = fetches
                    /\ StartsResourceStage
                    /\ Prop(canvases'[Acting].config, "user") = Prop(before, "user")
               ELSE /\ \E i \in 1..Len(Added) : Added[i].ev = "Echo.UserSession"
                    /\ IF state' = "ready" THEN StartsResourceStage
                       ELSE canvases'[Acting].pc = "session"
       /\ \A c \in 1..Len(canvases) :
            (canvases[c].pc = "session" /\ canvases'[c].pc # "session") =>
                /\ lastOp'.op = "whoami" /\ state' = "ready"
                /\ PastSessionStage(canvases'[c])
                /\ Prop(canvases'[c].config, "user") = SessionRef]_vars

\* a canvas with supplied data and no app key has started its resource stage
\* in the step that created it, while the session of the page was never asked
C20_Witness ==
    /\ lastOp.op = "canvas.init" /\ Len(canvases) = 2
    /\ canvases[2].pc = "loading" /\ canvases[2].target = "bare"
    /\ Prop(canvases[2].config, "appkey") = Undef
    /\ Prop(canvases[2].config, "user") = Undef
    /\ ~Did(canvases[2], "Echo.UserSession")
    /\ canvases[1].pc = "session" /\ state = "waiting"

-----------------------------------------------------------------------------
(* Properties of the stages of a canvas and of its registry of apps *)

\* where in the trace of canvas cv it did ev
Positions(cv, ev) == {i \in 1..Len(cv.trace) : cv.trace[i].ev = ev}

\* every ev of cv came before every later of cv
Before(cv, ev, later) ==
    \A i \in Positions(cv, ev), j \in Positions(cv, later) : i < j

\* the scripts canvas cv asked for, or saw ready, as a bag
Scripts(cv, ev) ==
    LET at == SelectSeq(cv.trace, LAMBDA e : e.ev = ev)
    IN [url \in {at[i].code : i \in 1..Len(at)} |->
            Cardinality({i \in 1..Len(at) : at[i].code = url})]

\* C21: the stages of a canvas run in order. Messaging is initialized once,
\* after the config request (if there is one) and with a config that has
\* descriptors; the session is asked for after messaging init; downloads are
\* requested after the session stage, with the resolved session in the config
\* when the session was asked for; apps are made only after every download
\* requested has reported ready, in whatever order, and nothing is loaded
\* after the first app is made.
C21_StagesInOrder ==
    \A c \in 1..Len(canvases) :
        LET cv == canvases[c]
        IN /\ Cardinality(Positions(cv, "Backplane.init")) <= 1
           /\ Did(cv, "Backplane.init") =>
                    /\ Len(Prop(cv.data, "apps").v) > 0
                    /\ Supplied(cv.config) \/ Did(cv, "request")
           /\ Before(cv, "request", "Backplane.init")
           /\ Did(cv, "Echo.UserSession") => Did(cv, "Backplane.init")
           /\ Before(cv, "Backplane.init", "Echo.UserSession")
           /\ Did(cv, "download") =>
                    /\ Did(cv, "Backplane.init")
                    /\ Did(cv, "Echo.UserSession") => Prop(cv.config, "user") = SessionRef
           /\ Before(cv, "Backplane.init", "download")
           /\ Before(cv, "Echo.UserSession", "download")
           /\ Before(cv, "download", "loaded")
           /\ Before(cv, "loaded", "new")
           /\ (Did(cv, "new") \/ cv.apps # <<>> \/ cv.pc = "rendered") =>
                    /\ Did(cv, "Backplane.init")
                    /\ cv.pending = <<>>
                    /\ Scripts(cv, "loaded") = Scripts(cv, "download")
           /\ cv.pc = "loading" <=> (Did(cv, "download") /\ cv.pending # <<>>)

\* a canvas with a fetched config and the shared session has made its apps
\* after its two scripts reported ready in the reverse of the order asked for
C21_Witness ==
    \E c \in 1..Len(canvases) :
        LET cv == canvases[c]
            asked == SelectSeq(cv.trace, LAMBDA e : e.ev = "download")
            ready == SelectSeq(cv.trace, LAMBDA e : e.ev = "loaded")
        IN /\ cv.pc = "rendered" /\ Did(cv, "request") /\ Did(cv, "Echo.UserSession")
           /\ Len(asked) = 2 /\ Len(ready) = 2
           /\ asked[1].code = ready[2].code /\ asked[2].code = ready[1].code
           /\ asked[1].code # asked[2].code
           /\ Did(cv, "new")

\* the descriptors of a config
AppsOf(d) == Prop(d, "apps").v

\* the descriptors of a config that have no script URL
Scriptless(d) == {i \in 1..Len(AppsOf(d)) : ~Truthy(_getAppScriptURL(AppsOf(d)[i]))}

\* whether the registry of cv holds an instance made for its i-th descriptor:
\* the instance was given the body element of the view of that descriptor
Instantiated(cv, i) ==
    \E k \in 1..Len(cv.apps) : Prop(cv.apps[k].config, "target") = Element(i - 1)

\* the errors cv reported for single descriptors, in order
DescriptorErrors(cv) ==
    SelectSeq(Reported(cv),
              LAMBDA code : code \in {"incomplete_app_config", "no_suitable_app_class"})

\* C22: a canvas whose config has N descriptors, exactly one of them without
\* a script URL and the others complete, ends its pipeline with the other N-1
\* instantiated, the one not, N-1 entries in the registry, and exactly one
\* error reported for a descriptor.
C22_OneIncompleteDescriptor ==
    \A c \in 1..Len(canvases) :
        LET cv == canvases[c]
            n == Len(AppsOf(cv.data))
        IN (/\ cv.pc = "rendered"
            /\ Cardinality(Scriptless(cv.data)) = 1
            /\ \A i \in 1..n : Truthy(Prop(AppsOf(cv.data)[i], "component"))) =>
                /\ Len(cv.apps) = n - 1
                /\ \A i \in 1..n : Instantiated(cv, i) <=> i \notin Scriptless(cv.data)
                /\ Len(DescriptorErrors(cv)) = 1

\* C23: a destroy of a canvas leaves its registry empty, so that a destroy of
\* a canvas destroyed before invokes the destroy of no instance again.
C23_DestroyEmptiesRegistry ==
    [][lastOp'.op = "canvas.destroy" =>
            /\ canvases'[Acting].apps = <<>>
            /\ canvases[Acting].destroyed > 0 =>
                    \A k \in 1..Len(canvases'[Acting].apps) :
                        canvases'[Acting].apps[k].destroyed =
                            canvases[Acting].apps[k].destroyed]_vars

\* C24: a destroy of a canvas sets the marker of its container to false; a
\* bootstrap on a container whose marker a destroy has set to false (no
\* bootstrap has set it since) is not turned away by the guard: it reports
\* no canvas_already_initialized and goes on to the validation of its config.
C24_DestroyPermitsBootstrap ==
    [][/\ lastOp'.op = "canvas.destroy" =>
            initialized'[canvases[Acting].target] = Bool(FALSE)
       /\ (lastOp'.op = "canvas.init" /\ initialized[Created.target] = Bool(FALSE)) =>
            /\ Created.pc # "rejected"
            /\ \A i \in 1..Len(Reported(Created)) :
                    Reported(Created)[i] # "canvas_already_initialized"
            /\ Created.pc # "invalid" => initialized'[Created.target] = Bool(TRUE)]_vars

\* the first canvas of a container was destroyed after its bootstrap, and a
\* second bootstrap on the container has passed the guard and set the marker
C24_Witness ==
    /\ lastOp.op = "canvas.init" /\ Len(canvases) = 2
    /\ canvases[1].target = canvases[2].target
    /\ canvases[1].destroyed = 1 /\ canvases[1].pc \notin {"rejected", "invalid"}
    /\ canvases[2].pc \in {"fetching", "loading", "session"}
    /\ Reported(canvases[2]) = <<>>
    /\ initialized[canvases[2].target] = Bool(TRUE)

\* the descriptors Stage 4 finds incomplete: no component or no script URL
\* (the id is asked for only of a canvas without data, and a canvas at
\* Stage 4 has data)
Incomplete(cv) ==
    {i \in 1..Len(AppsOf(cv.data)) :
        \/ ~Truthy(Prop(AppsOf(cv.data)[i], "component"))
        \/ ~Truthy(_getAppScriptURL(AppsOf(cv.data)[i]))}

\* C25: a descriptor Stage 4 found incomplete is left alone by Stage 5: no
\* instance is made for it, and the one incomplete_app_config is the only
\* error reported for it.
C25_IncompleteDescriptorSkipped ==
    \A c \in 1..Len(canvases) :
        LET cv == canvases[c]
        IN cv.pc = "rendered" =>
            /\ \A i \in Incomplete(cv) : ~Instantiated(cv, i)
            /\ Len(DescriptorErrors(cv)) = Cardinality(Incomplete(cv))

\* the step renders canvas c: its download callback runs Stage 5
Renders(c) ==
    /\ canvases'[c].pc = "rendered"
    /\ c <= Len(canvases) => canvases[c].pc # "rendered"

\* what canvas c did in the step
AddedTo(c) ==
    LET before == IF c <= Len(canvases) THEN Len(canvases[c].trace) ELSE 0
    IN SubSeq(canvases'[c].trace, before + 1, Len(canvases'[c].trace))

\* whether an implementation is registered for a descriptor when Stage 5 runs
HasImplementation(app) ==
    /\ Prop(app, "component").t = "string"
    /\ Prop(app, "component").s \in defined'

\* the positions of the descriptors of c with an implementation, in order
WithImplementation(c) ==
    LET d == AppsOf(canvases'[c].data)
    IN SelectSeq([i \in 1..Len(d) |-> i], LAMBDA i : HasImplementation(d[i]))

\* C26: when Stage 5 of a canvas has run, its registry is exactly the
\* instances of the descriptors with a registered implementation, in the
\* order of the descriptors; Stage 5 went through the descriptors in order,
\* making an instance for each one with an implementation and reporting one
\* no_suitable_app_class for each one without, and going on after it.
C26_RegistryInDescriptorOrder ==
    [][\A c \in 1..Len(canvases') :
        Renders(c) =>
            LET d == AppsOf(canvases'[c].data)
                idx == WithImplementation(c)
                reg == canvases'[c].apps
                did == SelectSeq(AddedTo(c), LAMBDA e : e.ev \in {"new", "log"})
            IN /\ Len(reg) = Len(idx)
               /\ \A k \in 1..Len(reg) :
                    /\ reg[k].component = Prop(d[idx[k]], "component").s
                    /\ Prop(reg[k].config, "target") = Element(idx[k] - 1)
               /\ Len(did) = Len(d)
               /\ \A i \in 1..Len(d) :
                    did[i] = IF HasImplementation(d[i])
                             THEN [ev |-> "new", code |-> Prop(d[i], "component").s]
                             ELSE [ev |-> "log", code |-> "no_suitable_app_class"]]_vars

\* a canvas of three descriptors, the second with no implementation, has
\* made the first and the third, in that order, and reported the second
C26_Witness ==
    \E c \in 1..Len(canvases) :
        LET cv == canvases[c]
        IN /\ cv.pc = "rendered" /\ lastOp.op = "loaded" /\ lastOp.cb.id = c
           /\ Len(AppsOf(cv.data)) = 3 /\ Len(cv.apps) = 2
           /\ cv.apps[1].component = "Counter" /\ cv.apps[2].component = "Stream"
           /\ Instantiated(cv, 1) /\ ~Instantiated(cv, 2) /\ Instantiated(cv, 3)
           /\ "Poll" \notin defined
           /\ \E i \in 1..Len(Reported(cv)) : Reported(cv)[i] = "no_suitable_app_class"

\* a config without what Stage 5 injects into it
Rest(o) == Obj([k \in (DOMAIN o.f) \ {"user", "target"} |-> o.f[k]])

\* r is own merged with the overrides o: the keys of both, o winning where
\* both have the key, part by part where both have an object under it
RECURSIVE MergeOf(_, _, _)
MergeOf(r, own, o) ==
    /\ r.t = "object"
    /\ DOMAIN r.f = (DOMAIN own.f) \cup (DOMAIN o.f)
    /\ \A key \in DOMAIN r.f :
            IF key \notin DOMAIN o.f THEN r.f[key] = own.f[key]
            ELSE IF /\ o.f[key].t = "object"
                    /\ key \in DOMAIN own.f /\ own.f[key].t = "object"
            THEN MergeOf(r.f[key], own.f[key], o.f[key])
            ELSE r.f[key] = o.f[key]

\* cfg is what the claim gives the i-th descriptor of canvas c, as the
\* canvas has it before Stage 5: its config (none counts as empty) merged
\* with the overrides under its id, the explicit id or else the position
Expected(c, i, cfg) ==
    LET app == AppsOf(canvases[c].data)[i]
        own == OrElse(Prop(app, "config"), EmptyObj)
        id == IF Truthy(Prop(app, "id")) THEN Prop(app, "id") ELSE Num(i - 1)
        o == Prop(Prop(canvases[c].config, "overrides"), KeyOf(id))
    IN IF o = Undef THEN Rest(cfg) = own ELSE MergeOf(Rest(cfg), own, o)

\* C27: the config an instance is made with is, the injected session and
\* target aside, the config of its descriptor merged with the overrides the
\* canvas has under the id of the descriptor, the explicit id or else the
\* position in the array: the override wins where both have a key, what only
\* the descriptor has is kept, and with no entry of overrides the config is
\* as the descriptor has it.
C27_OverridesDeepMerged ==
    [][\A c \in 1..Len(canvases) :
        Renders(c) =>
            \A k \in 1..Len(canvases'[c].apps) :
                \E i \in 1..Len(AppsOf(canvases[c].data)) :
                    /\ Prop(canvases'[c].apps[k].config, "target") = Element(i - 1)
                    /\ Expected(c, i, canvases'[c].apps[k].config)]_vars

\* a canvas has made the app at position 0, which has no id and no config,
\* with the override under "0", and the app stream-3 with its config merged
\* with the override under "stream-3", the nested filter part by part
C27_Witness ==
    \E c \in 1..Len(canvases) :
        LET cv == canvases[c]
        IN /\ cv.pc = "rendered" /\ lastOp.op = "loaded" /\ lastOp.cb.id = c
           /\ Prop(cv.config, "overrides") = AppOverrides
           /\ Len(cv.apps) = 2
           /\ Rest(cv.apps[1].config) = Obj("caption" :> Str("Count"))
           /\ Rest(cv.apps[2].config) =
                Obj("itemsPerPage" :> Num(10) @@ "sortOrder" :> Str("reverse")
                        @@ "filter" :> Obj("state" :> Str("approved") @@ "depth" :> Num(2)))

\* C28: every instance in the registry of a canvas was given, in its config,
\* the session the canvas holds after Stage 3 and, when the canvas has an id,
\* that id (under whatever key).
C28_SessionAndCanvasIdInjected ==
    \A c \in 1..Len(canvases) :
        \A k \in 1..Len(canvases[c].apps) :
            LET given == canvases[c].apps[k].config
                id == Prop(canvases[c].config, "id")
            IN /\ Prop(given, "user") = Prop(canvases[c].config, "user")
               /\ Truthy(id) => \E key \in DOMAIN given.f : given.f[key] = id

\* the step ends the pipeline of canvas Acting in a failure: the guard, the
\* validation of id and app key, a failed config request, an empty config
FailsPipeline ==
    /\ lastOp'.op \in {"canvas.init", "storage"}
    /\ canvases'[Acting].pc \in {"rejected", "invalid", "halted"}

\* C29: a step that ends the pipeline of a canvas in a failure publishes
\* exactly one Echo.Canvas.onError event, in debug mode or not.
C29_OneErrorEventPerFailure ==
    [][FailsPipeline =>
            Len(SelectSeq(Added, LAMBDA e : e.ev = "onError")) = 1]_vars

-----------------------------------------------------------------------------
(* Properties of any *)

\* the lists of values callers ask any about
ProbeLists ==
    {<<>>, <<Str("moderator")>>, <<Str("vip"), Str("ModeratorApproved")>>,
     <<Str("bob"), Str("carol")>>, <<Num(0)>>, <<Bool(FALSE), Str("http://b.example/")>>}

\* C30: for a key without an any handler, any(key, values) returns false as
\* long as the store has not been reset (no identity yet); after that it
\* returns true exactly when the value get finds under the key is a string
\* equal (==) to one of the values or an array with one of the values in it,
\* so false for an empty list of values.
C30_AnyFallback ==
    \A key \in {k \in Keys : ~Delegated("any", k)}, values \in ProbeLists :
        LET ret == any(user, key, Arr(values)).ret
            data == get(user, key, EmptyObj).ret
        IN IF user.identity = Undef THEN ret = Bool(FALSE)
           ELSE ret = Bool(\E i \in 1..Len(values) :
                            \/ data.t = "string" /\ LooseEq(data, values[i])
                            \/ data.t = "array" /\
                                    \E j \in 1..Len(data.v) : data.v[j] = values[i])

\* on a store reset to a logged-in payload and written to, any finds the
\* second of two values in a string and in an array, and nothing in no values
C30_Witness ==
    /\ user.identity # Undef /\ lastOp.op = "set"
    /\ Prop(IdentityObj(user), "custom") = Str("carol")
    /\ any(user, "custom", Arr(<<Str("bob"), Str("carol")>>)).ret = Bool(TRUE)
    /\ any(user, "custom", Arr(<<Str("moderator")>>)).ret = Bool(FALSE)
    /\ any(user, "roles", Arr(<<Str("moderator")>>)).ret = Bool(TRUE)
    /\ any(user, "state", Arr(<<Str("vip"), Str("ModeratorApproved")>>)).ret = Bool(TRUE)
    /\ any(user, "state", Arr(<<>>)).ret = Bool(FALSE)

-----------------------------------------------------------------------------
(* Properties of the dispatcher under writes and of the derived identity *)

\* C31: on a resolved session, after set(key, v) get(key) returns v, for
\* every key callers set and every value, the key name (whose set and get
\* are handlers) included.
C31_SetGetRoundTrip ==
    (state = "ready" /\ user.identity # Undef) =>
        \A key \in SetKeys, v \in SetValues :
            set(user, key, v) # Threw =>
                get(set(user, key, v), key, Undef).ret = v

\* the active identity has neither display name nor username
Nameless(u) ==
    /\ ~Truthy(Prop(IdentityObj(u), "displayName"))
    /\ ~Truthy(Prop(IdentityObj(u), "username"))

\* the active identity has neither an avatar nor an avatar photo
Faceless(u) ==
    /\ ~Truthy(Prop(IdentityObj(u), "avatar"))
    /\ FirstAvatar(OrElse(Prop(IdentityObj(u), "photos"), Arr(<<>>))) = Undef

\* C32: on a store that has been reset, get("name", d) returns d when the
\* active identity has neither display name nor username, and
\* get("avatar", d) returns d when it has no avatar photo.
C32_HandlersReturnDefault ==
    user.identity # Undef =>
        \A d \in Defaults :
            /\ Nameless(user) => get(user, "name", d).ret = d
            /\ Faceless(user) => get(user, "avatar", d).ret = d

\* the loggedIn flags of the accounts of a payload, in the payload's order
Flags(d) ==
    LET accs == OrElse(Accounts(d), Arr(<<>>))
    IN [i \in 1..Len(accs.v) |-> Prop(accs.v[i], "loggedIn")]

\* the accounts of the store whose flag is the string "true", as references
ActiveOf(u) ==
    LET flags == Flags(u.data)
    IN SelectSeq([i \in 1..Len(flags) |-> Ref(i)], LAMBDA r : flags[r.i] = Str("true"))

\* the derived identity values of a store agree with the accounts it holds
Derived(u) ==
    /\ IF ActiveOf(u) # <<>>
       THEN u.identity = ActiveOf(u)[1]
       ELSE /\ u.identity.t = "object"
            /\ DOMAIN u.identity.f \subseteq {"activeIdentities", "avatar"}
    /\ get(u, "activeIdentities", Undef).ret = Arr(ActiveOf(u))
    /\ is(u, "logged").ret = Bool(ActiveOf(u) # <<>>)

\* C33: after a store reset (an identity-fetch response, an anonymous
\* logout) and after any step that follows it, the derived identity values
\* are those of the payload of that reset: the accounts of the store are the
\* payload's, the active identity is the first account whose loggedIn is
\* "true" (an empty record if there is none), get("activeIdentities") is
\* exactly the accounts with that flag, and is("logged") is true iff there is one.
C33_DerivedFollowsPayload ==
    /\ [](user.identity # Undef => Derived(user))
    /\ [][/\ lastOp'.op = "whoami" => Flags(user'.data) = Flags(out'[1].data)
          /\ (lastOp'.op = "logout" /\ lastOp'.arg = Bool(FALSE)) =>
                    Flags(user'.data) = <<>>
          /\ (lastOp'.op \notin {"whoami", "logout"} /\ user.identity # Undef) =>
                    Flags(user'.data) = Flags(user.data)]_vars

\* a read has filled a cache of a store reset from a payload with a logged-in
\* account that is not the first
C33_Witness ==
    /\ lastOp.op = "get"
    /\ user.identity = Ref(2)
    /\ Truthy(Prop(IdentityObj(user), "activeIdentities"))
    /\ Derived(user)

-----------------------------------------------------------------------------
(* Properties of constructions, of concurrent fetches and of logout *)

\* C34: a construction with no config, or with a config whose app key is
\* missing or empty, changes nothing whatever the lifecycle state: state,
\* store, config, the Backplane subscription, the requests in flight and the
\* queued callbacks stay as they are, no request is sent and no callback runs.
C34_InvalidConstructionNoEffect ==
    [][(lastOp'.op = "construct" /\ ~ValidConfig(lastOp'.arg)) =>
            /\ UNCHANGED <<state, user, config, backplaneSubscriptionID, subscribers,
                           whoami, logouts, onInitSubs, fired>>
            /\ out' = <<>>]_vars

\* such a construction was made on a ready session, with an empty app key
C34_Witness ==
    /\ lastOp.op = "construct"
    /\ lastOp.arg = Obj([k \in {"appkey"} |-> Str("")])
    /\ lastOp.pre = "ready"
    /\ out = <<>>

\* C35: when several identity-fetches are in flight, the response of an
\* older one never overwrites the data of a newer one. The request of the
\* construction is the oldest one there is; when its response arrives on a
\* session that is ready, a request issued after it has been answered, and
\* the store keeps the reserved namespace and the accounts it holds.
C35_OlderResponseKeepsNewerData ==
    [][(lastOp'.op = "whoami" /\ lastOp'.cb.kind = "ready" /\ state = "ready") =>
            /\ Prop(user'.data, "echo") = Prop(user.data, "echo")
            /\ Flags(user'.data) = Flags(user.data)]_vars

\* C36: the callback of a logout of an active identity is not run by the
\* completion of an identity-fetch that was in flight before the logout
\* response arrived. An identity-fetch answered in the step right after a
\* logout response was sent before it: its step runs no logout callback.
C36_LogoutAwaitsLaterFetch ==
    [][(lastOp.op = "logoutResponse" /\ lastOp'.op = "whoami") =>
            \A i \in 1..Len(CallbacksOf(out')) :
                CallbacksOf(out')[i].kind # "logout"]_vars

-----------------------------------------------------------------------------
(* Properties of the marker, of the descriptors of a fetched config and of *)
(* the end of a bootstrap                                                   *)

\* canvas cv went past the guards of init: it set the marker of its container
SetMarker(cv) == cv.pc \notin {"created", "rejected", "invalid"}

\* C37: as long as a canvas that set the marker of its container has not
\* been destroyed itself, the marker stays set, whatever other canvases are
\* created on the container or destroyed, a rejected one included.
C37_MarkerOutlivesOtherCanvases ==
    \A c \in 1..Len(canvases) :
        (SetMarker(canvases[c]) /\ canvases[c].destroyed = 0) =>
            Truthy(initialized[canvases[c].target])

\* the positions of the descriptors of d that have a component and a script
\* and no id
Idless(d) ==
    {i \in 1..Len(AppsOf(d)) :
        /\ Truthy(Prop(AppsOf(d)[i], "component"))
        /\ Truthy(_getAppScriptURL(AppsOf(d)[i]))
        /\ ~Truthy(Prop(AppsOf(d)[i], "id"))}

\* the positions of the descriptors of d with no script or no component
Partial(d) ==
    {i \in 1..Len(AppsOf(d)) :
        \/ ~Truthy(Prop(AppsOf(d)[i], "component"))
        \/ ~Truthy(_getAppScriptURL(AppsOf(d)[i]))}

\* C38: when Stage 4 has run for a canvas whose config was fetched from the
\* storage, a descriptor with a component and a script and no id has been
\* reported with incomplete_app_config and its script has not been asked
\* for; for a canvas with a config of its own such a descriptor is accepted
\* and its script asked for.
C38_FetchedDescriptorNeedsId ==
    \A c \in 1..Len(canvases) :
        LET cv == canvases[c]
            d == cv.data
            incomplete == SelectSeq(Reported(cv), LAMBDA code : code = "incomplete_app_config")
        IN cv.pc = "loading" =>
            IF Did(cv, "request")
            THEN /\ \A i \in Idless(d) :
                        KeyOf(_getAppScriptURL(AppsOf(d)[i])) \notin DOMAIN Scripts(cv, "download")
                 /\ Len(incomplete) = Cardinality(Idless(d) \cup Partial(d))
            ELSE /\ \A i \in Idless(d) :
                        KeyOf(_getAppScriptURL(AppsOf(d)[i])) \in DOMAIN Scripts(cv, "download")
                 /\ Len(incomplete) = Cardinality(Partial(d))

\* the app keys of the identity-fetch requests of a trace of effects
FetchKeys(o) ==
    {Prop(o[i].data, "appkey") : i \in {j \in 1..Len(o) : o[j].ev = "request" /\ o[j].topic = "whoami"}}

\* C39: the app key of every identity-fetch is that of the first valid
\* construction. That construction sets the config; a later construction
\* with a valid key, the same or another, leaves the config as it is and
\* sends no request: on a waiting session its callback is queued, on a ready
\* one it runs at once on the store as resolved under the first key. Every
\* request sent, and every request in flight, carries the key of the config.
C39_FirstAppKeyKept ==
    [][/\ (lastOp'.op = "construct" /\ ValidConfig(lastOp'.arg)) =>
            IF state = "none"
            THEN Prop(config', "appkey") = Prop(lastOp'.arg, "appkey")
            ELSE /\ config' = config
                 /\ RequestsOf(out') = <<>>
                 /\ whoami' = whoami
                 /\ user' = user
                 /\ state = "waiting" =>
                        out' = <<>> /\ onInitSubs' = Append(onInitSubs, lastOp'.cb)
                 /\ state = "ready" =>
                        /\ CallbacksOf(out') = <<lastOp'.cb>>
                        /\ out'[1].store = user.data
       /\ config # Undef => config' = config
       /\ FetchKeys(out') \subseteq {Prop(config', "appkey")}
       /\ \A i \in 1..Len(whoami') :
            Prop(whoami'[i].params, "appkey") = Prop(config', "appkey")]_vars

\* a construction with another key than the first was made on a ready
\* session: its callback ran and the config has the first key
C39_Witness ==
    /\ lastOp.op = "construct"
    /\ lastOp.pre = "ready"
    /\ ValidConfig(lastOp.arg)
    /\ Prop(lastOp.arg, "appkey") # Prop(config, "appkey")
    /\ fired[lastOp.cb.id] = 1

\* the outcomes a bootstrap ends in: Stage 5 has run, or an error has halted
\* the pipeline
Terminal == {"rendered", "rejected", "invalid", "halted"}

\* canvas c waits for its scripts
Loading(c) == c <= Len(canvases) /\ canvases[c].pc = "loading"

\* Every answer comes in the end. The answer of the storage to canvas c is
\* weakly fair. So are the answer to the oldest identity-fetch in flight and
\* a script of canvas c reporting ready; their conditions are written out as
\* []<>(not enabled) \/ []<>(taken), the step being enabled exactly when a
\* fetch is in flight, and when canvas c is loading.
Completion ==
    /\ \A c \in 1..MaxCanvases :
            WF_vars(\E result \in StorageResults : StorageResponse(c, result))
    /\ \/ []<>(whoami = <<>>)
       \/ []<><<\E r \in PageResponses : PageWhoamiResponse(1, r)>>_vars
    /\ \A c \in 1..MaxCanvases :
            \/ []<>(~Loading(c))
            \/ []<><<\E j \in 1..Len(canvases[c].pending) : ScriptLoaded(c, j)>>_vars

\* a page of canvases with debug mode off, every answer coming in the end
InitCanvasLive == InitCanvas /\ debug = FALSE

SpecCanvasLive == InitCanvasLive /\ [][CanvasNext]_vars /\ Completion

\* C40: provided every storage request, identity-fetch and script download
\* completes in the end, every bootstrap of a canvas reaches a terminal
\* outcome: Stage 5 has run, or an error has halted the pipeline.
C40_BootstrapTerminates ==
    \A c \in 1..MaxCanvases :
        (Len(canvases) >= c) ~> (Len(canvases) >= c /\ canvases[c].pc \in Terminal)

\* a canvas that waited for the storage, for the session and for its scripts
\* has run Stage 5
C40_Witness ==
    \E c \in 1..Len(canvases) :
        /\ canvases[c].pc = "rendered"
        /\ Did(canvases[c], "request")
        /\ Did(canvases[c], "Echo.UserSession")
        /\ Did(canvases[c], "loaded")

=============================================================================
